---- MODULE Spec2Model ----
(***************************************************************************)
(* Model of the FullScreenCover idle-overlay controller:                   *)
(*   - VolumeController (modules/audio_devices.py): save / mute / restore  *)
(*     of the audio mixer, with every host call allowed to fail;           *)
(*   - ScreensaverController (main.py): the poll thread (monitor), the     *)
(*     tray callbacks that write the configuration, stop() / run() on the  *)
(*     main thread and the end of the process.                             *)
(* Volumes are in tenths (7 stands for 0.7).  A mute flag is 0 or 1, as    *)
(* the mixer returns it; None is the unset value of a saved field.         *)
(***************************************************************************)
EXTENDS Integers, Sequences, FiniteSets, TLC

\* ---------------------------------------------------------------- bounds
MaxSessions == 1
MaxIdle == 2
RenderCap == 2

\* ------------------------------------------------------------- constants
None == -1
DefaultVolume == 5

Sessions == 1..MaxSessions
Volumes == {0, 5, 7}
MuteFlags == {0, 1}

VARIABLES
    \* VolumeController fields
    volume_interface,     \* TRUE iff self.volume_interface is not None
    previous_mute_state,  \* None or the saved device mute flag
    previous_volume,      \* None or the saved device volume
    touched_sessions,     \* sequence of [s, m, v]: saved per-session states
    \* host audio mixer
    devMute, devVol,      \* endpoint mute flag and volume
    sess,                 \* per-application sessions: [active, mute, vol]
    \* history of the direct call of the VolumeController API just made
    \* (CallMute, CallRestore); NoCall after any other step
    lastCall,
    \* ScreensaverController fields
    config,               \* the in-memory configuration (self.config)
    running, stopping, showing,
    presentation_mode_active,  \* PresentationModeController's active flag
    \* poll thread (monitor): position and locals
    pc, idle, suppress, muted, exc,
    \* main thread: tray loop, stop(), return from main()
    mainPc,
    \* host: seconds since the last input, verdict the suppression probe
    \* would give, renderer calls in progress
    hostIdle, hostSuppress, activeRenders,
    \* history: the episode of the current tick, renderer invocations in the
    \* current idle period, whether stop() was first called while the
    \* renderer was running
    ep, epRenders, stopDuring,
    \* idle sampler (utils/path_utils.py): the host tick counter and the tick
    \* of the last input, 32-bit words; the call of get_idle_duration just
    \* made
    tickCount, dwTime, idleCall,
    \* suppression check (modules/lock.py, modules/powerpoint_detection.py):
    \* the foreground window, the large-window option, the player processes
    \* running, _video_playing_cache, the host clock, the media shapes of
    \* the current slide, the state of the automation interface, the call
    \* just made
    fg, suppress_large_window, players, video_playing_cache, now, slide, com,
    supCall,
    \* PresentationModeController fields, the host's power requests,
    \* execution state and notification settings, the call just made
    features, power_request_available, power_request_handle,
    notification_blocking_active, saved_notification_settings,
    hostRequests, hostHandleOpen, hostExecState, hostNotif, guardCall,
    \* configuration (main.py load_config / save_config): the configuration
    \* file, the dictionary self.config built from it, how far main() got,
    \* the poll tick just made on that dictionary
    store, settings, boot, cfgCall,
    \* overlay renderer (screensaver.py): the media file handed to
    \* show_screensaver and the position of the call
    media, rnd,
    \* window snapshot (lock.py get_foreground_window_info): the call just
    \* made on the foreground window fg
    snap,
    \* what the mute_for_screensaver call just made did at the endpoint
    fb,
    \* system cursor (cursor_control.py) and the show_image call that hides
    \* it: the CursorController fields, the display counter of the host, the
    \* position and the local cursor_hidden of show_image
    cur,
    \* single-instance lock (lock.py SingleInstanceWithAlert): the lock file
    \* and, per process, the position in acquire / release, self.fp and
    \* what acquire returned
    lk,
    \* stop() (main.py): the calls of it that returned, the guard and tray
    \* calls they made, and whether the tray ended the process
    stp

audioVars == <<volume_interface, previous_mute_state, previous_volume,
               touched_sessions, devMute, devVol, sess, lastCall>>

ctlVars == <<config, running, stopping, showing, presentation_mode_active>>
pollVars == <<pc, idle, suppress, muted, exc>>
hostVars == <<hostIdle, hostSuppress, activeRenders>>
histVars == <<ep, epRenders, stopDuring>>
idleVars == <<tickCount, dwTime, idleCall>>
supVars == <<fg, suppress_large_window, players, video_playing_cache, now,
             slide, com, supCall>>
guardVars == <<features, power_request_available, power_request_handle,
               notification_blocking_active, saved_notification_settings,
               hostRequests, hostHandleOpen, hostExecState, hostNotif,
               guardCall>>
confVars == <<store, settings, boot, cfgCall>>
renderVars == <<media, rnd>>
auxVars == <<snap, fb, cur, lk, stp>>
\* each of these components leaves the others alone
auxButSnap == <<fb, cur, lk, stp>>
auxButFb == <<snap, cur, lk, stp>>
auxButCur == <<snap, fb, lk, stp>>
auxButLk == <<snap, fb, cur, stp>>
auxButStp == <<snap, fb, cur, lk>>
\* the components the controller's steps leave alone
extVars == <<idleVars, supVars, guardVars, confVars, renderVars, auxVars>>
\* the controller and the Audio Guard, left alone by the other components
\* (presentation_mode_active is the Presentation Mode Guard's own field)
coreVars == <<volume_interface, previous_mute_state, previous_volume,
              touched_sessions, devMute, devVol, sess, lastCall,
              config, running, stopping, showing,
              pc, idle, suppress, muted, exc, mainPc,
              hostIdle, hostSuppress, activeRenders, ep, epRenders,
              stopDuring>>

vars == <<volume_interface, previous_mute_state, previous_volume,
          touched_sessions, devMute, devVol, sess, lastCall,
          config, running, stopping, showing, presentation_mode_active,
          pc, idle, suppress, muted, exc, mainPc,
          hostIdle, hostSuppress, activeRenders, ep, epRenders, stopDuring,
          tickCount, dwTime, idleCall,
          fg, suppress_large_window, players, video_playing_cache, now,
          slide, com, supCall,
          features, power_request_available, power_request_handle,
          notification_blocking_active, saved_notification_settings,
          hostRequests, hostHandleOpen, hostExecState, hostNotif, guardCall,
          store, settings, boot, cfgCall, media, rnd, snap, fb, cur, lk, stp>>

\* The audio state as one value, so that the methods are operators on it.
AudioSt ==
    [volume_interface |-> volume_interface,
     previous_mute_state |-> previous_mute_state,
     previous_volume |-> previous_volume,
     touched_sessions |-> touched_sessions,
     devMute |-> devMute, devVol |-> devVol, sess |-> sess]

SetAudio(st) ==
    /\ volume_interface' = st.volume_interface
    /\ previous_mute_state' = st.previous_mute_state
    /\ previous_volume' = st.previous_volume
    /\ touched_sessions' = st.touched_sessions
    /\ devMute' = st.devMute
    /\ devVol' = st.devVol
    /\ sess' = st.sess

\* Outcomes of the host calls made during one VolumeController call.
\*   getMute, getVol, setMute, postGet, setVol: the endpoint call raises
\*   enumSave, enumMute: AudioUtilities.GetAllSessions raises
\*   sf[s]: "ok", or the first SimpleAudioVolume call of session s that
\*          raises: "get" (GetMute/GetMasterVolume), "mute" (SetMute),
\*          "vol" (SetMasterVolume)
SessionOutcomes == {"ok", "get", "mute", "vol"}

NoFail ==
    [getMute |-> FALSE, getVol |-> FALSE, setMute |-> FALSE,
     postGet |-> FALSE, setVol |-> FALSE, enumSave |-> FALSE,
     enumMute |-> FALSE, sf |-> [s \in Sessions |-> "ok"]]

\* Only the calls that are reached can fail: a field that the call never
\* consults is pinned to its no-failure value.
MayFail(reached) == IF reached THEN BOOLEAN ELSE {FALSE}

MuteFails(st) ==
    LET fresh == st.previous_mute_state = None
        device == st.volume_interface
    IN {f \in [getMute : MayFail(fresh /\ device),
               getVol : MayFail(fresh /\ device),
               setMute : MayFail(device),
               postGet : MayFail(device),
               setVol : MayFail(device),
               enumSave : MayFail(fresh),
               enumMute : BOOLEAN,
               sf : {g \in [Sessions -> SessionOutcomes] :
                       \A s \in Sessions :
                          /\ ~st.sess[s].active => g[s] = "ok"
                          /\ ~fresh => g[s] # "get"}] :
          /\ f.setMute => ~f.postGet
          /\ (~f.setMute /\ ~f.postGet) => ~f.setVol
          /\ f.enumMute => \A s \in Sessions : f.sf[s] \in {"ok", "get"}}

RestoreFails(st) ==
    LET device == st.previous_mute_state # None /\ st.volume_interface
    IN [getMute : {FALSE}, getVol : {FALSE},
        setMute : MayFail(device),
        postGet : {FALSE},
        setVol : MayFail(device),
        enumSave : {FALSE}, enumMute : {FALSE},
        sf : {g \in [Sessions -> {"ok", "mute", "vol"}] :
                \A s \in Sessions :
                   (\A i \in 1..Len(st.touched_sessions) :
                        st.touched_sessions[i].s # s) => g[s] = "ok"}]

\* _get_active_sessions: the active sessions in enumeration order, [] when
\* the enumeration raises.
RECURSIVE SeqOfSet(_)
SeqOfSet(S) ==
    IF S = {} THEN <<>>
    ELSE LET m == CHOOSE x \in S : \A y \in S : x <= y
         IN <<m>> \o SeqOfSet(S \ {m})

get_active_sessions(st, fails) ==
    IF fails THEN <<>>
    ELSE SeqOfSet({s \in Sessions : st.sess[s].active})

get_mute_state(st, fails) ==
    IF ~st.volume_interface THEN 0
    ELSE IF fails THEN 0
    ELSE st.devMute

get_volume(st, fails) ==
    IF ~st.volume_interface THEN DefaultVolume
    ELSE IF fails THEN DefaultVolume
    ELSE st.devVol

\* set_mute / set_volume return [ok, st].
set_mute(st, mute, fails) ==
    IF ~st.volume_interface THEN [ok |-> FALSE, st |-> st]
    ELSE IF fails THEN [ok |-> FALSE, st |-> st]
    ELSE [ok |-> TRUE, st |-> [st EXCEPT !.devMute = mute]]

set_volume(st, volume, fails) ==
    IF ~st.volume_interface THEN [ok |-> FALSE, st |-> st]
    ELSE IF fails THEN [ok |-> FALSE, st |-> st]
    ELSE [ok |-> TRUE, st |-> [st EXCEPT !.devVol = volume]]

\* The loop of save_current_state over the active sessions.
RECURSIVE SaveSessions(_, _, _)
SaveSessions(st, active, f) ==
    IF active = <<>> THEN <<>>
    ELSE LET s == Head(active)
             rest == SaveSessions(st, Tail(active), f)
         IN IF f.sf[s] = "get" THEN rest
            ELSE <<[s |-> s, m |-> st.sess[s].mute, v |-> st.sess[s].vol]>>
                     \o rest

save_current_state_rewrite(st, f) ==
    [st EXCEPT
       !.previous_mute_state = get_mute_state(st, f.getMute),
       !.previous_volume = get_volume(st, f.getVol),
       !.touched_sessions =
            SaveSessions(st, get_active_sessions(st, f.enumSave), f)]

save_current_state(st, f) ==
    IF st.previous_mute_state # None THEN st
    ELSE [st EXCEPT
            !.previous_mute_state = get_mute_state(st, f.getMute),
            !.previous_volume = get_volume(st, f.getVol),
            !.touched_sessions =
                SaveSessions(st, get_active_sessions(st, f.enumSave), f)]

\* One session write pair: SetMute(m) then SetMasterVolume(v), either of
\* which may raise (the pair is abandoned at the first raise).
WriteSession(sessions, s, m, v, outcome) ==
    IF outcome = "mute" THEN sessions
    ELSE IF outcome = "vol" THEN [sessions EXCEPT ![s].mute = m]
    ELSE [sessions EXCEPT ![s].mute = m, ![s].vol = v]

RECURSIVE MuteSessions(_, _, _)
MuteSessions(sessions, active, f) ==
    IF active = <<>> THEN sessions
    ELSE MuteSessions(WriteSession(sessions, Head(active), 1, 0,
                                   f.sf[Head(active)]),
                      Tail(active), f)

RECURSIVE RestoreSessions(_, _, _)
RestoreSessions(sessions, touched, f) ==
    IF touched = <<>> THEN sessions
    ELSE LET t == Head(touched)
         IN RestoreSessions(WriteSession(sessions, t.s, t.m, t.v, f.sf[t.s]),
                            Tail(touched), f)

\* mute_for_screensaver returns [ret, st, effect]; effect: a layer took
\* effect on the host (the endpoint mute, the endpoint volume forced to 0,
\* or the SetMute of an active session), which the method itself does not
\* keep track of.
mute_for_screensaver_zero_always(st, f) ==
    LET s1 == save_current_state(st, f)
        r1 == set_mute(s1, 1, f.setMute)
        s2 == r1.st
        fallback == TRUE
        r3 == IF fallback THEN set_volume(s2, 0, f.setVol)
              ELSE [ok |-> FALSE, st |-> s2]
        s3 == r3.st
        active == get_active_sessions(s3, f.enumMute)
        s4 == [s3 EXCEPT !.sess = MuteSessions(s3.sess, active, f)]
    IN [ret |-> TRUE, st |-> s4,
        effect |-> \/ r1.ok
                   \/ r3.ok
                   \/ \E i \in 1..Len(active) : f.sf[active[i]] # "mute",
        muteOk |-> r1.ok,
        readMuted |-> get_mute_state(s2, f.postGet) # 0,
        volWrite |-> fallback,
        volOk |-> r3.ok]

mute_for_screensaver(st, f) ==
    LET s1 == save_current_state(st, f)
        r1 == set_mute(s1, 1, f.setMute)
        s2 == r1.st
        fallback == ~r1.ok \/ get_mute_state(s2, f.postGet) = 0
        r3 == IF fallback THEN set_volume(s2, 0, f.setVol)
              ELSE [ok |-> FALSE, st |-> s2]
        s3 == r3.st
        active == get_active_sessions(s3, f.enumMute)
        s4 == [s3 EXCEPT !.sess = MuteSessions(s3.sess, active, f)]
    IN [ret |-> TRUE, st |-> s4,
        effect |-> \/ r1.ok
                   \/ r3.ok
                   \/ \E i \in 1..Len(active) : f.sf[active[i]] # "mute",
        muteOk |-> r1.ok,
        readMuted |-> get_mute_state(s2, f.postGet) # 0,
        volWrite |-> fallback,
        volOk |-> r3.ok]

\* restore_previous_state returns [raised, devFail, st]; raised: the log line
\* formats previous_volume with ':.2f', which raises TypeError on None,
\* before the sessions are restored and the record is cleared.
restore_previous_state_novolume(st, f) ==
    LET r1 == IF st.previous_mute_state # None
              THEN set_mute(st, st.previous_mute_state, f.setMute)
              ELSE [ok |-> TRUE, st |-> st]
    IN IF st.previous_volume = None
       THEN [raised |-> TRUE, devFail |-> ~r1.ok, st |-> r1.st]
       ELSE [raised |-> FALSE, devFail |-> ~r1.ok,
             st |-> [r1.st EXCEPT
                       !.sess = RestoreSessions(r1.st.sess,
                                                st.touched_sessions, f),
                       !.touched_sessions = <<>>,
                       !.previous_mute_state = None,
                       !.previous_volume = None]]

restore_previous_state(st, f) ==
    LET r1 == IF st.previous_mute_state # None
              THEN set_mute(st, st.previous_mute_state, f.setMute)
              ELSE [ok |-> TRUE, st |-> st]
        r2 == IF st.previous_volume # None
              THEN set_volume(r1.st, st.previous_volume, f.setVol)
              ELSE [ok |-> TRUE, st |-> r1.st]
    IN IF st.previous_volume = None
       THEN [raised |-> TRUE, devFail |-> ~r1.ok \/ ~r2.ok, st |-> r2.st]
       ELSE [raised |-> FALSE, devFail |-> ~r1.ok \/ ~r2.ok,
             st |-> [r2.st EXCEPT
                       !.sess = RestoreSessions(r2.st.sess,
                                                st.touched_sessions, f),
                       !.touched_sessions = <<>>,
                       !.previous_mute_state = None,
                       !.previous_volume = None]]

unmute_after_screensaver(st, f) == restore_previous_state(st, f)

\* History of the direct call just made: which method, whether a record was saved
\* when it was called, whether it raised, whether a device write of a
\* restore failed (or was skipped for want of a volume interface), what a
\* mute returned and whether a layer of it took effect.
CallRec(name, saved, raised, devFail) ==
    [name |-> name, saved |-> saved, raised |-> raised, devFail |-> devFail,
     ret |-> FALSE, effect |-> FALSE]

NoCall ==
    [name |-> "none", saved |-> FALSE, raised |-> FALSE, devFail |-> FALSE,
     ret |-> FALSE, effect |-> FALSE]

InitAudio ==
    /\ volume_interface \in BOOLEAN
    /\ previous_mute_state = None
    /\ previous_volume = None
    /\ touched_sessions = <<>>
    /\ devMute \in MuteFlags
    /\ devVol \in {5, 7}
    /\ sess \in [Sessions -> [active : BOOLEAN, mute : {0}, vol : {7}]]
    /\ lastCall = NoCall

\* ---- the VolumeController API called directly, in any order (SpecAudio)
CallMute ==
    \E f \in MuteFails(AudioSt) :
        LET r == mute_for_screensaver(AudioSt, f)
        IN /\ SetAudio(r.st)
           /\ lastCall' = [CallRec("mute", previous_mute_state # None,
                                   FALSE, FALSE)
                               EXCEPT !.ret = r.ret, !.effect = r.effect]
           /\ UNCHANGED <<ctlVars, pollVars, mainPc, hostVars, histVars, extVars>>

CallRestore ==
    \E f \in RestoreFails(AudioSt) :
        LET r == unmute_after_screensaver(AudioSt, f)
        IN /\ SetAudio(r.st)
           /\ lastCall' = CallRec("restore", previous_mute_state # None,
                                  r.raised, r.devFail)
           /\ UNCHANGED <<ctlVars, pollVars, mainPc, hostVars, histVars, extVars>>

\* The user or another program changes the endpoint mute or volume.
HostDeviceChange ==
    /\ \E m \in MuteFlags, v \in Volumes :
          /\ <<m, v>> # <<devMute, devVol>>
          /\ devMute' = m
          /\ devVol' = v
    /\ lastCall' = NoCall
    /\ UNCHANGED <<volume_interface, previous_mute_state, previous_volume,
                   touched_sessions, sess>>
    /\ UNCHANGED <<ctlVars, pollVars, mainPc, hostVars, histVars, extVars>>

\* An application session becomes active or stops being active.
HostSessionToggle ==
    /\ \E s \in Sessions : sess' = [sess EXCEPT ![s].active = ~sess[s].active]
    /\ lastCall' = NoCall
    /\ UNCHANGED <<volume_interface, previous_mute_state, previous_volume,
                   touched_sessions, devMute, devVol>>
    /\ UNCHANGED <<ctlVars, pollVars, mainPc, hostVars, histVars, extVars>>

\* ------------------------------------------------ ScreensaverController
Intervals == {1, 2}

EpNone == [raised |-> FALSE, muteCalls |-> 0, restores |-> 0, disables |-> 0,
           presentation |-> FALSE]

InitController ==
    /\ config \in [interval : Intervals,
                   mute_on_screensaver : BOOLEAN,
                   suppress_during_video : BOOLEAN,
                   enable_presentation_mode : BOOLEAN]
    /\ running = TRUE
    /\ stopping = FALSE
    /\ showing = FALSE
    /\ presentation_mode_active = FALSE
    /\ pc = "check"
    /\ idle = 0
    /\ suppress = FALSE
    /\ muted = FALSE
    /\ exc = FALSE
    /\ mainPc = "tray_run"
    /\ hostIdle = 0
    /\ hostSuppress \in BOOLEAN
    /\ activeRenders = 0
    /\ ep = EpNone
    /\ epRenders = 0
    /\ stopDuring = FALSE

\* An idle period in which the overlay is due: the idle time is above the
\* threshold and nothing suppresses the overlay.
IdlePeriod(cfg, hIdle, hSuppress) ==
    /\ hIdle > cfg.interval
    /\ ~(cfg.suppress_during_video /\ hSuppress)

\* The renderer invocations of the current idle period, after a step that
\* invoked the renderer n times (0 or 1); the count starts again when the
\* idle period ends.
CountRenders(n, cfg, hIdle, hSuppress) ==
    epRenders' = IF IdlePeriod(cfg, hIdle, hSuppress)
                 THEN IF epRenders + n > RenderCap THEN RenderCap
                      ELSE epRenders + n
                 ELSE 0

Alive == mainPc # "exited"

EpisodePcs == {"enter", "render", "rendering", "finally", "clear"}

\* ---- monitor (poll thread)
\* while self.running:
LoopCheck ==
    /\ Alive /\ pc = "check"
    /\ pc' = IF running THEN "probe" ELSE "done"
    /\ UNCHANGED <<audioVars, ctlVars, idle, suppress, muted, exc, mainPc,
                   hostVars, histVars>>
    /\ UNCHANGED extVars

\* idle = get_idle_duration(); suppress = should_suppress_screensaver(...)
\* when suppress_during_video is set.  get_idle_duration returns 0 when the
\* last-input query fails.
\* An exception raised in the tick outside the episode (the idle probe, the
\* suppression check, a configuration lookup, the status line) reaches
\* "except Exception" of the loop body.
TickHandlerExits(raised) == IF raised THEN "done" ELSE "decide"

TickHandler(raised) == IF raised THEN "backoff" ELSE "decide"

Probe ==
    /\ Alive /\ pc = "probe"
    /\ \E raised \in BOOLEAN :
          /\ pc' = TickHandler(raised)
          /\ IF raised
             THEN idle' = 0 /\ suppress' = FALSE
             ELSE /\ \E queryFails \in BOOLEAN :
                        idle' = IF queryFails THEN 0 ELSE hostIdle
                  /\ suppress' = IF config.suppress_during_video
                                 THEN hostSuppress ELSE FALSE
    /\ UNCHANGED <<audioVars, ctlVars, muted, exc, mainPc, hostVars, histVars>>
    /\ UNCHANGED extVars

\* except Exception as e: (log); time.sleep(5)
Backoff ==
    /\ Alive /\ pc = "backoff"
    /\ pc' = "check"
    /\ UNCHANGED <<audioVars, ctlVars, idle, suppress, muted, exc, mainPc,
                   hostVars, histVars>>
    /\ UNCHANGED extVars

\* if idle > self.config['interval'] and not suppress and not self.showing:
TriggerNoStrict(i, cfg, sup, shw) == i >= cfg.interval /\ ~sup /\ ~shw

Trigger(i, cfg, sup, shw) == i > cfg.interval /\ ~sup /\ ~shw

Decide ==
    /\ Alive /\ pc = "decide"
    /\ IF Trigger(idle, config, suppress, showing)
       THEN /\ showing' = TRUE
            /\ pc' = "enter"
            /\ ep' = [EpNone EXCEPT
                        !.presentation = config.enable_presentation_mode]
       ELSE /\ showing' = showing
            /\ pc' = "sleep"
            /\ ep' = ep
    /\ idle' = 0
    /\ suppress' = FALSE
    /\ UNCHANGED <<audioVars, config, running, stopping,
                   presentation_mode_active, muted, exc, mainPc, hostVars,
                   epRenders, stopDuring>>
    /\ UNCHANGED extVars

\* Whether mute_for_screensaver raises under the mixer failures f: each
\* mixer call of it sits in a try that catches Exception (set_mute,
\* set_volume, get_mute_state, _get_active_sessions, the session loops).
MuteRaisesOnDeviceFailure(f) == f.setMute

MuteRaises(f) == FALSE

\* show_screensaver_with_mute, up to the renderer call:
\*   muted = False
\*   try:
\*     if self.config.get('mute_on_screensaver'): muted = mute_for_screensaver()
\* An exception of the mute call would leave the try for its finally
\* without the renderer having been called.
Enter ==
    /\ Alive /\ pc = "enter"
    /\ IF config.mute_on_screensaver
       THEN \E f \in MuteFails(AudioSt) :
              LET r == mute_for_screensaver(AudioSt, f)
              IN /\ SetAudio(r.st)
                 /\ lastCall' = lastCall
                 /\ muted' = (~MuteRaises(f) /\ r.ret)
                 /\ exc' = (exc \/ MuteRaises(f))
                 /\ pc' = IF MuteRaises(f) THEN "finally" ELSE "render"
                 /\ ep' = [ep EXCEPT !.muteCalls = 1]
       ELSE /\ muted' = FALSE
            /\ pc' = "render"
            /\ UNCHANGED <<audioVars, exc, ep>>
    /\ UNCHANGED <<ctlVars, idle, suppress, mainPc, hostVars, epRenders,
                   stopDuring>>
    /\ UNCHANGED extVars

\* show_screensaver(resolved_media_file) is called (blocking)
RenderStart ==
    /\ Alive /\ pc = "render"
    /\ activeRenders' = activeRenders + 1
    /\ pc' = "rendering"
    /\ CountRenders(1, config, hostIdle, hostSuppress)
    /\ UNCHANGED <<audioVars, ctlVars, idle, suppress, muted, exc, mainPc,
                   hostIdle, hostSuppress, ep, stopDuring>>
    /\ UNCHANGED extVars

\* The renderer call ends: dismissed by user input, returned without input
\* (unsupported media type, load failure, end of the video), or raised.
RenderOutcomes == {"dismissed", "early", "raised"}

RenderEnd ==
    /\ Alive /\ pc = "rendering"
    /\ \E outcome \in RenderOutcomes :
          /\ hostIdle' = IF outcome = "dismissed" THEN 0 ELSE hostIdle
          /\ exc' = (outcome = "raised")
          /\ ep' = [ep EXCEPT !.raised = (outcome = "raised")]
          /\ CountRenders(0, config,
                          IF outcome = "dismissed" THEN 0 ELSE hostIdle,
                          hostSuppress)
    /\ activeRenders' = activeRenders - 1
    /\ pc' = "finally"
    /\ UNCHANGED <<audioVars, ctlVars, idle, suppress, muted, mainPc,
                   hostSuppress, stopDuring>>
    /\ UNCHANGED extVars

\* finally: if muted and self.config.get('mute_on_screensaver'):
\*              self.volume_controller.unmute_after_screensaver()
ReleaseDueAlways(m, cfg) == m

ReleaseDue(m, cfg) == m /\ cfg.mute_on_screensaver

Finally ==
    /\ Alive /\ pc = "finally"
    /\ IF ReleaseDue(muted, config)
       THEN \E f \in RestoreFails(AudioSt) :
              LET r == unmute_after_screensaver(AudioSt, f)
              IN /\ SetAudio(r.st)
                 /\ lastCall' = lastCall
                 /\ exc' = (exc \/ r.raised)
                 /\ ep' = [ep EXCEPT !.restores = ep.restores + 1]
       ELSE UNCHANGED <<audioVars, exc, ep>>
    /\ pc' = "clear"
    /\ UNCHANGED <<ctlVars, idle, suppress, muted, mainPc, hostVars,
                   epRenders, stopDuring>>
    /\ UNCHANGED extVars

\* monitor: except Exception: (log) / finally: self.showing = False
ShowingAfterEpisodeKept(shw) == shw

ShowingAfterEpisode(shw) == FALSE

Clear ==
    /\ Alive /\ pc = "clear"
    /\ showing' = ShowingAfterEpisode(showing)
    /\ exc' = FALSE
    /\ muted' = FALSE
    /\ pc' = "sleep"
    /\ UNCHANGED <<audioVars, config, running, stopping,
                   presentation_mode_active, idle, suppress, mainPc, hostVars,
                   histVars>>
    /\ UNCHANGED extVars

\* time.sleep(2)
Sleep ==
    /\ Alive /\ pc = "sleep"
    /\ pc' = "check"
    /\ ep' = EpNone
    /\ UNCHANGED <<audioVars, ctlVars, idle, suppress, muted, exc, mainPc,
                   hostVars, epRenders, stopDuring>>
    /\ UNCHANGED extVars

\* ---- tray callbacks (main thread, inside tray.run())
\* Each writes self.config and calls save_config(), which re-derives the
\* Presentation Mode Guard's settings (no effect on its active flag).
TrayWrite(cfg) ==
    /\ Alive /\ mainPc = "tray_run"
    /\ config' = cfg
    /\ CountRenders(0, cfg, hostIdle, hostSuppress)
    /\ UNCHANGED <<audioVars, running, stopping, showing,
                   presentation_mode_active, pollVars, mainPc, hostVars, ep,
                   stopDuring>>
    /\ UNCHANGED extVars

toggle_mute_setting ==
    TrayWrite([config EXCEPT
                 !.mute_on_screensaver = ~config.mute_on_screensaver])

toggle_video_suppress_setting ==
    TrayWrite([config EXCEPT
                 !.suppress_during_video = ~config.suppress_during_video])

toggle_presentation_mode_setting ==
    TrayWrite([config EXCEPT
                 !.enable_presentation_mode = ~config.enable_presentation_mode])

set_interval_value ==
    \E sec \in Intervals \ {config.interval} :
        TrayWrite([config EXCEPT !.interval = sec])

\* ---- stop() / run() / main()
\* stop(): no-op when already stopping; otherwise sets the flags, disables
\* the Presentation Mode Guard if it is active, stops the tray.
StopEffect ==
    IF stopping
    THEN UNCHANGED <<running, stopping, presentation_mode_active, ep,
                     stopDuring>>
    ELSE /\ stopping' = TRUE
         /\ stopDuring' = (activeRenders > 0)
         /\ running' = FALSE
         /\ presentation_mode_active' = FALSE
         /\ ep' = IF presentation_mode_active
                  THEN [ep EXCEPT !.disables = ep.disables + 1]
                  ELSE ep

\* TrayMenu.on_quit: controller.stop(); icon.stop() -> tray.run() returns
on_quit ==
    /\ mainPc = "tray_run"
    /\ StopEffect
    /\ mainPc' = "run_finally"
    /\ UNCHANGED <<audioVars, config, showing, pollVars, hostVars, epRenders>>
    /\ UNCHANGED extVars

\* run(): KeyboardInterrupt or an error ends tray.run() without a stop
RunInterrupted ==
    /\ mainPc = "tray_run"
    /\ mainPc' = "run_finally"
    /\ UNCHANGED <<audioVars, ctlVars, pollVars, hostVars, histVars>>
    /\ UNCHANGED extVars

\* run(): finally: self.stop()
RunFinally ==
    /\ mainPc = "run_finally"
    /\ StopEffect
    /\ mainPc' = "returned"
    /\ UNCHANGED <<audioVars, config, showing, pollVars, hostVars, epRenders>>
    /\ UNCHANGED extVars

\* main() returns and the interpreter exits; the monitor thread is a daemon
\* thread (threading.Thread(target=self.monitor, daemon=True)), so it is
\* not waited for: it ends wherever it is.
ProcessExit ==
    /\ mainPc = "returned"
    /\ mainPc' = "exited"
    /\ UNCHANGED <<audioVars, ctlVars, pollVars, hostVars, histVars>>
    /\ UNCHANGED extVars

\* ---- host
TimePasses ==
    /\ Alive
    /\ hostIdle < MaxIdle
    /\ hostIdle' = hostIdle + 1
    /\ CountRenders(0, config, hostIdle + 1, hostSuppress)
    /\ UNCHANGED <<audioVars, ctlVars, pollVars, mainPc, hostSuppress,
                   activeRenders, ep, stopDuring>>
    /\ UNCHANGED extVars

\* User input while no overlay is up (input while the renderer runs is the
\* "dismissed" outcome of RenderEnd).
UserInput ==
    /\ Alive
    /\ activeRenders = 0
    /\ hostIdle > 0
    /\ hostIdle' = 0
    /\ CountRenders(0, config, 0, hostSuppress)
    /\ UNCHANGED <<audioVars, ctlVars, pollVars, mainPc, hostSuppress,
                   activeRenders, ep, stopDuring>>
    /\ UNCHANGED extVars

\* A video starts or stops playing in the foreground.
HostSuppressToggle ==
    /\ Alive
    /\ hostSuppress' = ~hostSuppress
    /\ CountRenders(0, config, hostIdle, ~hostSuppress)
    /\ UNCHANGED <<audioVars, ctlVars, pollVars, mainPc, hostIdle,
                   activeRenders, ep, stopDuring>>
    /\ UNCHANGED extVars

Next ==
    \/ LoopCheck
    \/ Probe
    \/ Backoff
    \/ Decide
    \/ Enter
    \/ RenderStart
    \/ RenderEnd
    \/ Finally
    \/ Clear
    \/ Sleep
    \/ toggle_mute_setting
    \/ toggle_video_suppress_setting
    \/ toggle_presentation_mode_setting
    \/ set_interval_value
    \/ on_quit
    \/ RunInterrupted
    \/ RunFinally
    \/ ProcessExit
    \/ TimePasses
    \/ UserInput
    \/ HostSuppressToggle

NextAudio ==
    \/ CallMute
    \/ CallRestore
    \/ HostDeviceChange
    \/ HostSessionToggle

\* ----------------------------------------- idle sampler (path_utils.py)
\* A 32-bit word is kept as two 16-bit halves, [hi, lo] standing for
\* hi * 2^16 + lo; a difference of words has a signed hi.
Half == 65536

Word(h, l) == [hi |-> h, lo |-> l]

\* Tick values around the sign bit and the wrap of the 32-bit counter
\* (0x7FFFxxxx, 0x8000xxxx, 0xFFFFxxxx) and near zero.
TickValues == [hi : {0, 1, 32767, 32768, 65535}, lo : {0, 1000, 65535}]

\* class LASTINPUTINFO: ("dwTime", ctypes.c_uint): read as unsigned
AsCUInt(w) == w

\* ctypes.windll.kernel32.GetTickCount(): no restype is declared, so the
\* returned DWORD is converted as a C int (signed, 32 bits)
AsCInt(w) == IF w.hi >= 32768 THEN Word(w.hi - Half, w.lo) ELSE w

\* a - b on Python integers (unbounded)
Minus(a, b) ==
    LET borrow == IF a.lo < b.lo THEN 1 ELSE 0
    IN Word(a.hi - b.hi - borrow, a.lo - b.lo + borrow * Half)

Negative(w) == w.hi < 0

\* get_idle_duration(): the milliseconds whose thousandth it returns
\*   if GetLastInputInfo(byref(lii)) == 0: return 0
\*   millis = GetTickCount() - lii.dwTime; return millis / 1000.0
get_idle_duration(queryOk, tick, last) ==
    IF ~queryOk THEN Word(0, 0) ELSE Minus(AsCInt(tick), AsCUInt(last))

NoIdleCall == [called |-> FALSE, failed |-> FALSE, millis |-> Word(0, 0)]

InitIdleSampler ==
    /\ tickCount \in TickValues
    /\ dwTime \in TickValues
    /\ idleCall = NoIdleCall

IdleSamplerAtBoot ==
    /\ tickCount = Word(0, 0)
    /\ dwTime = Word(0, 0)
    /\ idleCall = NoIdleCall

\* A call of get_idle_duration(); the host query succeeds or fails.
CallGetIdleDuration ==
    /\ \E queryOk \in BOOLEAN :
          idleCall' = [called |-> TRUE, failed |-> ~queryOk,
                       millis |-> get_idle_duration(queryOk, tickCount,
                                                    dwTime)]
    /\ UNCHANGED <<tickCount, dwTime>>
    /\ UNCHANGED <<coreVars, presentation_mode_active, supVars, guardVars,
                   confVars, renderVars, auxVars>>

\* The user gives input: the host records the current tick.
HostInput ==
    /\ dwTime # tickCount
    /\ dwTime' = tickCount
    /\ idleCall' = NoIdleCall
    /\ UNCHANGED tickCount
    /\ UNCHANGED <<coreVars, presentation_mode_active, supVars, guardVars,
                   confVars, renderVars, auxVars>>

NextIdle ==
    \/ CallGetIdleDuration
    \/ HostInput

\* ------------------------------------- suppression check (modules/lock.py)
\* A window title, a class name or a process name is a sequence of
\* fragments; str.lower() maps each fragment to lower case and "x in s" of
\* the code is "x occurs as a run of fragments of s".
Lower(w) ==
    CASE w = "VLC" -> "vlc"
      [] w = "Media" -> "media"
      [] w = "Player" -> "player"
      [] w = "Netflix" -> "netflix"
      [] w = "YouTube" -> "youtube"
      [] w = "Twitch" -> "twitch"
      [] w = "PowerPoint" -> "powerpoint"
      [] w = "Report" -> "report"
      [] w = "Chrome_WidgetWin" -> "chrome_widgetwin"
      [] w = "MozillaWindowClass" -> "mozillawindowclass"
      [] w = "ApplicationFrameWindow" -> "applicationframewindow"
      [] w = "QWidget" -> "qwidget"
      [] w = "screenClass" -> "screenclass"
      [] w = "Microsoft" -> "microsoft"
      [] OTHER -> w

lower(s) == [i \in 1..Len(s) |-> Lower(s[i])]

In(x, s) ==
    \E i \in 0..(Len(s) - Len(x)) : \A j \in 1..Len(x) : s[i + j] = x[j]

\* win32api.GetSystemMetrics(SM_CXSCREEN / SM_CYSCREEN)
screen_width == 1920
screen_height == 1080

SW_MAXIMIZE == 3

\* The foreground window on the host; ok is false when the window query
\* fails (or the win32 modules are missing).
Titles ==
    {<<"VLC", "Media", "Player">>, <<"Netflix">>, <<"YouTube">>,
     <<"Twitch">>, <<"メディア", "プレーヤー">>,
     <<"PowerPoint", "Report">>, <<"Report">>}

ClassNames ==
    {<<"QWidget">>, <<"Chrome_WidgetWin">>, <<"MozillaWindowClass">>,
     <<"ApplicationFrameWindow">>, <<"screenClass">>}

Geometries ==
    {[width |-> 800, height |-> 600, show_state |-> 1],
     [width |-> 1200, height |-> 800, show_state |-> 1],
     [width |-> 1300, height |-> 900, show_state |-> 1],
     [width |-> 1850, height |-> 1080, show_state |-> 1],
     [width |-> 1850, height |-> 1080, show_state |-> SW_MAXIMIZE],
     [width |-> 1880, height |-> 1040, show_state |-> 1],
     [width |-> 1900, height |-> 1060, show_state |-> 1],
     [width |-> 1920, height |-> 1080, show_state |-> 1]}

Window(t, c, g) ==
    [ok |-> TRUE, title |-> t, class_name |-> c, width |-> g.width,
     height |-> g.height, show_state |-> g.show_state]

NoWindow ==
    [ok |-> FALSE, title |-> <<>>, class_name |-> <<>>, width |-> 0,
     height |-> 0, show_state |-> 1]

Windows ==
    {Window(t, c, g) : t \in Titles, c \in ClassNames, g \in Geometries}
        \cup {NoWindow}

\* get_foreground_window_info(): the is_fullscreen it computes
is_fullscreen_no_placement(w) ==
    \/ w.width >= screen_width - 20 /\ w.height >= screen_height - 20
    \/ /\ w.class_name = <<"ApplicationFrameWindow">>
       /\ In(<<"メディア">>, w.title)
       /\ w.width >= screen_width - 50
       /\ w.height >= screen_height - 50

is_fullscreen(w) ==
    LET is_fullscreen_basic ==
            w.width >= screen_width - 20 /\ w.height >= screen_height - 20
        is_media_player_fullscreen ==
            /\ w.class_name = <<"ApplicationFrameWindow">>
            /\ In(<<"メディア">>, w.title)
            /\ w.width >= screen_width - 50
            /\ w.height >= screen_height - 50
        is_maximized == w.show_state = SW_MAXIMIZE
    IN \/ is_fullscreen_basic
       \/ is_media_player_fullscreen
       \/ (is_maximized /\ w.width >= screen_width - 100)

video_players ==
    {<<"vlc">>, <<"mpc-hc">>, <<"mpc-be">>, <<"kmplayer">>, <<"potplayer">>,
     <<"mpv">>, <<"windows", "media", "player">>, <<"groove">>,
     <<"movies", "&", "tv">>, <<"メディア", "プレーヤー">>,
     <<"media", "player">>, <<"video", "player">>, <<"netflix">>,
     <<"amazon", "prime">>, <<"hulu">>, <<"disney+">>, <<"twitch">>,
     <<"crunchyroll">>, <<"funimation">>, <<"gom", "player">>,
     <<"smplayer">>, <<"bsplayer">>, <<"winamp">>, <<"kodi">>, <<"plex">>,
     <<"jellyfin">>, <<"emby">>}

is_video_player_window(w) ==
    /\ w.ok
    /\ LET title == lower(w.title)
           class_name == lower(w.class_name)
       IN \/ \E player \in video_players :
                In(player, title) \/ In(player, class_name)
          \/ /\ class_name = <<"applicationframewindow">>
             /\ \/ In(<<"メディア">>, title)
                \/ In(<<"media">>, title)
                \/ In(<<"player">>, title)

browser_classes ==
    {<<"chrome_widgetwin">>, <<"mozillawindowclass">>,
     <<"applicationframewindow">>}

video_services ==
    {<<"youtube">>, <<"netflix">>, <<"amazon", "prime">>, <<"hulu">>,
     <<"disney+">>, <<"twitch">>, <<"crunchyroll">>, <<"funimation">>,
     <<"abematv">>, <<"nicovideo">>, <<"bilibili">>, <<"vimeo">>,
     <<"dailymotion">>}

is_youtube_windowed(w) ==
    /\ w.ok
    /\ \E browser_class \in browser_classes :
          In(browser_class, lower(w.class_name))
    /\ \E service \in video_services : In(service, lower(w.title))

is_youtube_fullscreen(w) ==
    /\ w.ok
    /\ \E browser_class \in browser_classes :
          In(browser_class, lower(w.class_name))
    /\ \E service \in video_services : In(service, lower(w.title))
    /\ is_fullscreen(w)

powerpoint_slideshow_classes == {<<"pptframeclass">>, <<"screenclass">>}

\* is_powerpoint_slideshow_running(): queries the foreground window again
is_powerpoint_slideshow_running(w) ==
    /\ w.ok
    /\ \/ In(<<"powerpoint">>, lower(w.title))
       \/ \E ppt_class \in powerpoint_slideshow_classes :
             In(ppt_class, lower(w.class_name))
    /\ is_fullscreen(w)

\* ---- is_video_playing() and _video_playing_cache
\* Times are in tenths of a second, CPU readings in tenths of a percent.
cache_duration == 15

\* time.sleep(0.5) before the measurements, time.sleep(0.2) between them
SampleWait == 5
SampleTime == 7

\* time.time() when the module is loaded, and the last clock value modelled
\* (a call that would end later is not made)
StartTime == 20
MaxNow == 45

EmptyCache == [timestamp |-> 0, result |-> FALSE]

ProcNames == {<<"vlc">>, <<"Microsoft", "Media", "Player">>, <<"explorer">>}

CpuReadings == {15, 30, 40}

player_processes ==
    {<<"vlc">>, <<"mpc-hc">>, <<"kmplayer">>, <<"potplayer">>, <<"mpv">>}

\* The CPU threshold of a target process; None for a process that is not
\* sampled.
Threshold(proc) ==
    LET name == lower(proc)
    IN IF \E player \in player_processes : In(player, name) THEN 30
       ELSE IF In(<<"media">>, name) /\ In(<<"player">>, name) THEN 15
       ELSE None

target_processes(procs) == {proc \in procs : Threshold(proc) # None}

\* if (current_time - cache['timestamp']) < cache['cache_duration']:
CacheFreshInclusive(current_time, cache) ==
    (current_time - cache.timestamp) <= cache_duration

CacheFresh(current_time, cache) ==
    (current_time - cache.timestamp) < cache_duration

\* The failures of one call: none, an exception while the processes are
\* enumerated, an exception while they are sampled.
ProbeFails(current_time, cache, procs) ==
    IF CacheFresh(current_time, cache) THEN {"none"}
    ELSE IF target_processes(procs) = {} THEN {"none", "enumerate"}
    ELSE {"none", "enumerate", "sample"}

\* The readings of the two measurements, per target process.
ProbeReadings(current_time, cache, procs, fail) ==
    IF CacheFresh(current_time, cache) \/ fail # "none"
    THEN {[m \in 1..2 |-> [proc \in target_processes(procs) |-> 15]]}
    ELSE [1..2 -> [target_processes(procs) -> CpuReadings]]

\* is_video_playing(): the value returned, the cache it leaves, whether it
\* enumerated and sampled processes, the time it took.
is_video_playing(cache, current_time, procs, readings, fail) ==
    IF CacheFresh(current_time, cache)
    THEN [ret |-> cache.result, cache |-> cache, enumerated |-> FALSE,
          sampled |-> FALSE, elapsed |-> 0]
    ELSE IF fail = "enumerate"
    THEN [ret |-> FALSE,
          cache |-> [timestamp |-> current_time, result |-> FALSE],
          enumerated |-> TRUE, sampled |-> FALSE, elapsed |-> 0]
    ELSE IF target_processes(procs) = {}
    THEN [ret |-> FALSE,
          cache |-> [timestamp |-> current_time, result |-> FALSE],
          enumerated |-> TRUE, sampled |-> FALSE, elapsed |-> 0]
    ELSE IF fail = "sample"
    THEN [ret |-> FALSE,
          cache |-> [timestamp |-> current_time + SampleWait,
                     result |-> FALSE],
          enumerated |-> TRUE, sampled |-> TRUE, elapsed |-> SampleWait]
    ELSE LET cpu_detection_positive(m) ==
                 \E proc \in target_processes(procs) :
                     readings[m][proc] > Threshold(proc)
             final_result ==
                 cpu_detection_positive(1) \/ cpu_detection_positive(2)
         IN [ret |-> final_result,
             cache |-> [timestamp |-> current_time, result |-> final_result],
             enumerated |-> TRUE, sampled |-> TRUE, elapsed |-> SampleTime]

\* ---- PowerPointDetector (modules/powerpoint_detection.py)
\* The media shapes (shape.Type == 16) of the current slide, at most
\* MaxShapes of them.  A shape: whether it has a MediaFormat, whether
\* MediaFormat.PlayState can be read and its value, the state read from
\* OLEFormat.Object (None: no such property), and the static properties.
\* A property that cannot be read counts as its default in
\* _infer_state_from_properties (Volume 0, Muted True, Length 0,
\* click_action 0, effect_type 0), so it is that value here.
MaxShapes == 1

PlayStates == {0, 1, 2}

ReadableShapes ==
    {[MediaFormat |-> TRUE, readable |-> TRUE, PlayState |-> ps,
      ole |-> None, click_action |-> 0, effect_type |-> 0, Length |-> 10,
      Volume |-> 5, Muted |-> FALSE] : ps \in PlayStates}

UnreadableShapes ==
    [MediaFormat : {TRUE}, readable : {FALSE}, PlayState : {None},
     ole : {None, 1, 2}, click_action : {0, 12}, effect_type : {0, 83},
     Length : {0, 10}, Volume : {0, 5}, Muted : BOOLEAN]
    \cup
    [MediaFormat : {FALSE}, readable : {FALSE}, PlayState : {None},
     ole : {None, 1, 2}, click_action : {0}, effect_type : {0},
     Length : {0}, Volume : {0}, Muted : {TRUE}]

Shapes == ReadableShapes \cup UnreadableShapes

Slides == UNION {[1..n -> Shapes] : n \in 0..MaxShapes}

ComStates == {"ok", "no_import", "no_show"}

\* _infer_state_from_properties(properties, shape_name): 1 playing,
\* 2 stopped, None unknown
infer_state_from_properties(shape) ==
    LET volume == shape.Volume
        is_muted == shape.Muted
        has_play_action == shape.click_action = 12
        has_media_effect == shape.effect_type = 83
        length == shape.Length
    IN IF /\ has_play_action /\ has_media_effect /\ length > 0
          /\ (volume > 0 \/ ~is_muted)
       THEN 1
       ELSE IF (has_play_action \/ shape.click_action = 12) /\ length > 0
       THEN None
       ELSE IF (has_media_effect \/ shape.effect_type = 83) /\ length > 0
       THEN None
       ELSE IF length > 0
       THEN IF is_muted /\ volume = 0 THEN 2 ELSE None
       ELSE 2

\* _try_standard_playstate: MediaFormat.PlayState, else the inference
try_standard_playstate(shape) ==
    IF ~shape.MediaFormat THEN None
    ELSE IF shape.readable THEN shape.PlayState
    ELSE infer_state_from_properties(shape)

\* _try_alternative_playstate: the state property of OLEFormat.Object
try_alternative_playstate(shape) == shape.ole

\* media_info['play_state'] after the three methods (_try_animation_state
\* finds nothing)
play_state(shape) ==
    IF try_standard_playstate(shape) # None
    THEN try_standard_playstate(shape)
    ELSE try_alternative_playstate(shape)

\* _check_media_playback_state(media_shapes)[0]
check_media_playback_state(shapes) ==
    \E i \in 1..Len(shapes) : play_state(shapes[i]) = 1

\* _check_slideshow_window(): the foreground window is PowerPoint's and
\* covers the screen (20 px tolerance)
check_slideshow_window(w) ==
    /\ w.ok
    /\ \/ In(<<"powerpoint">>, lower(w.title))
       \/ \E cls \in powerpoint_slideshow_classes :
             In(cls, lower(w.class_name))
    /\ w.width >= screen_width - 20
    /\ w.height >= screen_height - 20

\* is_powerpoint_video_playing(): "no_show" stands for no running
\* PowerPoint, no slide show window or missing win32 modules
is_powerpoint_video_playing_unguarded(comSt, w, shapes) ==
    /\ check_slideshow_window(w)
    /\ Len(shapes) > 0
    /\ check_media_playback_state(shapes)

is_powerpoint_video_playing(comSt, w, shapes) ==
    /\ comSt = "ok"
    /\ check_slideshow_window(w)
    /\ Len(shapes) > 0
    /\ check_media_playback_state(shapes)

\* is_powerpoint_high_cpu(): cpu_usage > 10.  get_cpu_usage_for_process
\* gives 0 when no process matches or the sampling raises.
PptCpuReadings == {0, 50, 150}

is_powerpoint_high_cpu(cpu_usage) == cpu_usage > 100

\* ---- should_suppress_screensaver(suppress_large_window)
\* 1. if is_video_player and window_info['is_fullscreen']: if video_playing
FullscreenPlayerRuleOff(is_video_player, fullscreen, video_playing) == FALSE

FullscreenPlayerRule(is_video_player, fullscreen, video_playing) ==
    is_video_player /\ fullscreen /\ video_playing

\* 2. if suppress_large_window and is_video_player:
\*        if width > 1200 and height > 800: if video_playing
LargeWindowRuleAlways(option, is_video_player, width, height, video_playing) ==
    is_video_player /\ width > 1200 /\ height > 800 /\ video_playing

LargeWindowRule(option, is_video_player, width, height, video_playing) ==
    option /\ is_video_player /\ width > 1200 /\ height > 800 /\ video_playing

\* The verdict and the step that gave it.  w is the window the foreground
\* query returns at the start of the call, w2 what the query of
\* is_powerpoint_slideshow_running returns (NoWindow when it fails).  Every
\* probe catches its own exceptions and the body sits in a try whose
\* "except Exception" returns False, so the call always returns a verdict.
should_suppress_screensaver(option, w, w2, video_playing, comSt, shapes, pptCpu) ==
    IF ~w.ok THEN [ret |-> FALSE, step |-> "no_window"]
    ELSE IF FullscreenPlayerRule(is_video_player_window(w), is_fullscreen(w),
                                 video_playing)
    THEN [ret |-> TRUE, step |-> "player_fullscreen"]
    ELSE IF LargeWindowRule(option, is_video_player_window(w), w.width,
                            w.height, video_playing)
    THEN [ret |-> TRUE, step |-> "player_large"]
    ELSE IF is_youtube_fullscreen(w)
    THEN [ret |-> TRUE, step |-> "browser"]
    ELSE IF is_powerpoint_slideshow_running(w2)
    THEN IF comSt # "no_import"
         THEN [ret |-> is_powerpoint_video_playing(comSt, w, shapes),
               step |-> "slideshow_com"]
         ELSE [ret |-> is_powerpoint_high_cpu(pptCpu),
               step |-> "slideshow_cpu"]
    ELSE [ret |-> FALSE, step |-> "none"]

NoSupCall ==
    [name |-> "none", ret |-> FALSE, video_playing |-> FALSE,
     enumerated |-> FALSE, sampled |-> FALSE, step |-> "none",
     fail |-> "none", requery |-> TRUE]

\* A call of is_video_playing().
CallIsVideoPlaying ==
    /\ \E fail \in ProbeFails(now, video_playing_cache, players) :
       \E readings \in ProbeReadings(now, video_playing_cache, players, fail) :
          LET r == is_video_playing(video_playing_cache, now, players,
                                    readings, fail)
          IN /\ now + r.elapsed <= MaxNow
             /\ video_playing_cache' = r.cache
             /\ now' = now + r.elapsed
             /\ supCall' = [name |-> "is_video_playing", ret |-> r.ret,
                            video_playing |-> r.ret,
                            enumerated |-> r.enumerated,
                            sampled |-> r.sampled, step |-> "none",
                            fail |-> fail, requery |-> TRUE]
    /\ UNCHANGED <<fg, suppress_large_window, players, slide, com>>
    /\ UNCHANGED <<coreVars, presentation_mode_active, idleVars, guardVars,
                   confVars, renderVars, auxVars>>

\* A failure of the second window query is told apart only for a window
\* that the slide show step would accept (for any other window the step is
\* negative either way), and the CPU of the presentation application is
\* sampled only when that step falls back to it.
SecondQueryFails(w) ==
    IF is_powerpoint_slideshow_running(w) THEN BOOLEAN ELSE {FALSE}

SlideshowCpuReadings(w, comSt) ==
    IF comSt = "no_import" /\ is_powerpoint_slideshow_running(w)
    THEN PptCpuReadings ELSE {0}

\* A call of should_suppress_screensaver(suppress_large_window): without a
\* window it returns before the probe; otherwise it calls is_video_playing()
\* once and then goes through its steps.  The slide show step asks for the
\* foreground window again, and that query can fail on its own.
CallShouldSuppress ==
    /\ IF ~fg.ok
       THEN /\ supCall' = [NoSupCall EXCEPT !.name = "should_suppress",
                                            !.step = "no_window"]
            /\ UNCHANGED <<video_playing_cache, now>>
       ELSE \E fail \in ProbeFails(now, video_playing_cache, players) :
            \E readings \in ProbeReadings(now, video_playing_cache, players,
                                          fail) :
            \E requeryFails \in SecondQueryFails(fg),
               pptCpu \in SlideshowCpuReadings(fg, com) :
               LET r == is_video_playing(video_playing_cache, now, players,
                                         readings, fail)
                   v == should_suppress_screensaver(
                            suppress_large_window, fg,
                            IF requeryFails THEN NoWindow ELSE fg,
                            r.ret, com, slide, pptCpu)
                   elapsed == r.elapsed + (IF v.step = "slideshow_cpu"
                                           THEN SampleWait ELSE 0)
               IN /\ now + elapsed <= MaxNow
                  /\ video_playing_cache' = r.cache
                  /\ now' = now + elapsed
                  /\ supCall' = [name |-> "should_suppress", ret |-> v.ret,
                                 video_playing |-> r.ret,
                                 enumerated |-> r.enumerated,
                                 sampled |-> r.sampled, step |-> v.step,
                                 fail |-> fail,
                                 requery |-> ~(requeryFails
                                               /\ v.step = "none")]
    /\ UNCHANGED <<fg, suppress_large_window, players, slide, com>>
    /\ UNCHANGED <<coreVars, presentation_mode_active, idleVars, guardVars,
                   confVars, renderVars, auxVars>>

\* The host clock advances.
ClockTick ==
    /\ now < MaxNow
    /\ now' = now + 1
    /\ supCall' = NoSupCall
    /\ UNCHANGED <<fg, suppress_large_window, players, video_playing_cache,
                   slide, com>>
    /\ UNCHANGED <<coreVars, presentation_mode_active, idleVars, guardVars,
                   confVars, renderVars, auxVars>>

\* A process starts or ends.
HostProcessChange ==
    /\ \E proc \in ProcNames :
          players' = IF proc \in players THEN players \ {proc}
                     ELSE players \cup {proc}
    /\ supCall' = NoSupCall
    /\ UNCHANGED <<fg, suppress_large_window, video_playing_cache, now,
                   slide, com>>
    /\ UNCHANGED <<coreVars, presentation_mode_active, idleVars, guardVars,
                   confVars, renderVars, auxVars>>

NextSuppress == CallShouldSuppress

NextCache ==
    \/ CallIsVideoPlaying
    \/ ClockTick
    \/ HostProcessChange

\* lock.py as loaded: the cache is empty.
SuppressionAtStart ==
    /\ fg = NoWindow
    /\ suppress_large_window = FALSE
    /\ players = {}
    /\ video_playing_cache = EmptyCache
    /\ now = StartTime
    /\ slide = <<>>
    /\ com = "ok"
    /\ supCall = NoSupCall

\* Window rules: any foreground window and option; one player process or
\* none; a cache that is empty, or holds a verdict that is still fresh.
InitSuppression ==
    /\ fg \in Windows
    /\ suppress_large_window \in BOOLEAN
    /\ players \in {{}, {<<"vlc">>}}
    /\ video_playing_cache \in
          {EmptyCache} \cup
          [timestamp : {StartTime - 10}, result : BOOLEAN]
    /\ now = StartTime
    /\ slide \in {<<>>}
    /\ com \in {"ok", "no_import"}
    /\ supCall = NoSupCall

\* Slide show: a PowerPoint slide show window in front, any slide.
InitSlides ==
    /\ fg \in {Window(<<"PowerPoint", "Report">>, <<"screenClass">>, g) :
                 g \in {[width |-> 1920, height |-> 1080, show_state |-> 1],
                        [width |-> 1850, height |-> 1080,
                         show_state |-> SW_MAXIMIZE]}}
    /\ suppress_large_window = FALSE
    /\ players = {}
    /\ video_playing_cache = EmptyCache
    /\ now = StartTime
    /\ slide \in Slides
    /\ com \in ComStates
    /\ supCall = NoSupCall

\* Probe failures: no window, or a fullscreen window of each kind in
\* front; a player process or none; the automation interface in each of
\* its states; a slide without media or with one media object whose state
\* can be read.
FullScreen == [width |-> 1920, height |-> 1080, show_state |-> 1]

InitFailures ==
    /\ fg \in {NoWindow,
               Window(<<"PowerPoint", "Report">>, <<"screenClass">>,
                      FullScreen),
               Window(<<"VLC", "Media", "Player">>, <<"QWidget">>,
                      FullScreen),
               Window(<<"YouTube">>, <<"Chrome_WidgetWin">>, FullScreen)}
    /\ suppress_large_window \in BOOLEAN
    /\ players \in {{}, {<<"vlc">>}}
    /\ video_playing_cache = EmptyCache
    /\ now = StartTime
    /\ slide \in {<<>>} \cup {<<shape>> : shape \in ReadableShapes}
    /\ com \in ComStates
    /\ supCall = NoSupCall

\* Cache: the probe called at any time, processes coming and going.
InitCache ==
    /\ fg = NoWindow
    /\ suppress_large_window = FALSE
    /\ players \in SUBSET ProcNames
    /\ video_playing_cache = EmptyCache
    /\ now = StartTime
    /\ slide = <<>>
    /\ com = "ok"
    /\ supCall = NoSupCall

\* --------------------- Presentation Mode Guard (presentation_mode.py)
\* The host: the power request handles the guard created and has not
\* closed (at most MaxHandles), the requests set on each, the continuous
\* execution-state flags of the thread, and the three notification values
\* of the registry (ALLOW_NOTIFICATION_SOUND, ALLOW_CRITICAL_TOASTS,
\* ALLOW_TOASTS_ABOVE_LOCK).
MaxHandles == 1

Handles == 1..MaxHandles

\* The value PowerCreateRequest returns when it fails: as a HANDLE it is
\* neither None nor -1, so the guard takes it for a handle.
INVALID_HANDLE_VALUE == 0

Requests == {"display", "system"}

FeatureSets ==
    [disable_screensaver : BOOLEAN, prevent_sleep : BOOLEAN,
     block_notifications : BOOLEAN]

NotifSettings == {<<1, 1, 1>>, <<1, 0, 1>>}

\* the values _enable_notification_blocking writes
NotifBlocked == <<0, 1, 0>>

GuardSt ==
    [features |-> features,
     available |-> power_request_available,
     handle |-> power_request_handle,
     active |-> presentation_mode_active,
     blocking |-> notification_blocking_active,
     saved |-> saved_notification_settings,
     open |-> hostHandleOpen,
     requests |-> hostRequests,
     exec |-> hostExecState,
     notif |-> hostNotif]

SetGuard(st) ==
    /\ features' = st.features
    /\ power_request_available' = st.available
    /\ power_request_handle' = st.handle
    /\ presentation_mode_active' = st.active
    /\ notification_blocking_active' = st.blocking
    /\ saved_notification_settings' = st.saved
    /\ hostHandleOpen' = st.open
    /\ hostRequests' = st.requests
    /\ hostExecState' = st.exec
    /\ hostNotif' = st.notif

\* Outcomes of the host calls of one enable or disable.  create: the
\* PowerCreateRequest call (a handle, the invalid handle value, or NULL);
\* display / system: PowerSetRequest or PowerClearRequest of that request
\* type (TRUE: it fails); close: CloseHandle; raises: an exception inside
\* the power request block of the disable; exec: SetThreadExecutionState;
\* save: the read of the current notification values; notif: the registry
\* write.
CreateOutcomes == {"ok", "invalid", "null"}

NotifOutcomes == {"ok", "denied"}

GuardFails(C, D, S, K, R, E, V, N) ==
    [create : C, display : D, system : S, close : K, raises : R, exec : E,
     save : V, notif : N]

NoGuardFail ==
    [create |-> "ok", display |-> FALSE, system |-> FALSE, close |-> FALSE,
     raises |-> FALSE, exec |-> FALSE, save |-> FALSE, notif |-> "ok"]

PowerUnit(st) == st.features.disable_screensaver \/ st.features.prevent_sleep

NotifUnit(st) == st.features.block_notifications

Flags(st) ==
    (IF st.features.disable_screensaver THEN {"display"} ELSE {})
        \cup (IF st.features.prevent_sleep THEN {"system"} ELSE {})

\* _enable_power_management(): [ok, st]
enable_power_management(st, f) ==
    LET h == CHOOSE x \in Handles \ st.open : TRUE
        created == st.available /\ f.create = "ok"
        handle1 == IF ~st.available THEN st.handle
                   ELSE IF f.create = "ok" THEN h
                   ELSE IF f.create = "invalid" THEN INVALID_HANDLE_VALUE
                   ELSE None
        set == IF created
               THEN {r \in Flags(st) :
                       (r = "display" /\ ~f.display)
                           \/ (r = "system" /\ ~f.system)}
               ELSE {}
        \* if all(requests_success) and len(requests_success) > 0
        requested == created /\ Flags(st) # {} /\ set = Flags(st)
        executed == ~requested /\ ~f.exec
    IN [ok |-> requested \/ executed,
        st |-> [st EXCEPT
                  !.handle = handle1,
                  !.open = IF created THEN st.open \cup {h} ELSE st.open,
                  !.requests = IF created
                               THEN [st.requests EXCEPT ![h] = set]
                               ELSE st.requests,
                  !.exec = IF executed THEN Flags(st) ELSE st.exec]]

\* _enable_notification_blocking(), with _save_current_focus_assist_state()
enable_notification_blocking(st, f) ==
    LET saved == IF f.save THEN <<>> ELSE st.notif
    IN IF f.notif = "ok"
       THEN [ok |-> TRUE,
             st |-> [st EXCEPT !.saved = saved, !.notif = NotifBlocked,
                               !.blocking = TRUE]]
       ELSE [ok |-> FALSE, st |-> [st EXCEPT !.saved = saved]]

\* success = success_count > 0 and
\*     (total_features == 0 or success_count >= total_features * 0.5)
aggregate_all(success_count, total_features) ==
    success_count > 0 /\ success_count >= total_features

aggregate(success_count, total_features) ==
    /\ success_count > 0
    /\ (total_features = 0 \/ 2 * success_count >= total_features)

Count(b) == IF b THEN 1 ELSE 0

\* enable_presentation_mode(): [ret, st, attempted, succeeded]
enable_presentation_mode(st, f) ==
    IF st.active
    THEN [ret |-> TRUE, st |-> st, attempted |-> 0, succeeded |-> 0]
    ELSE LET p == IF PowerUnit(st) THEN enable_power_management(st, f)
                  ELSE [ok |-> FALSE, st |-> st]
             n == IF NotifUnit(st) THEN enable_notification_blocking(p.st, f)
                  ELSE [ok |-> FALSE, st |-> p.st]
             total_features == Count(PowerUnit(st)) + Count(NotifUnit(st))
             success_count == Count(p.ok) + Count(n.ok)
             success == aggregate(success_count, total_features)
         IN [ret |-> success,
             st |-> [n.st EXCEPT !.active = success],
             attempted |-> total_features,
             succeeded |-> success_count]

\* _disable_power_management(): [ok, st]
disable_power_management(st, f) ==
    LET h == st.handle
        entered == h # None /\ h # INVALID_HANDLE_VALUE /\ st.available
        \* an invalid handle value is truthy as well: the calls are made
        \* and the host rejects them
        rejected == h = INVALID_HANDLE_VALUE /\ st.available
        cleared == IF entered /\ ~f.raises
                   THEN {r \in Flags(st) :
                           (r = "display" /\ ~f.display)
                               \/ (r = "system" /\ ~f.system)}
                   ELSE {}
        closed == entered /\ ~f.raises /\ ~f.close
        released == /\ entered /\ ~f.raises
                    /\ Flags(st) # {}
                    /\ cleared = Flags(st)
                    /\ closed
        executed == (~released \/ ~st.available) /\ ~f.exec
    IN [ok |-> released \/ executed,
        st |-> [st EXCEPT
                  !.handle = IF (entered \/ rejected) /\ ~f.raises
                             THEN None ELSE st.handle,
                  !.open = IF closed THEN st.open \ {h} ELSE st.open,
                  !.requests =
                      IF closed THEN [st.requests EXCEPT ![h] = {}]
                      ELSE IF entered
                      THEN [st.requests EXCEPT ![h] = @ \ cleared]
                      ELSE st.requests,
                  !.exec = IF executed THEN {} ELSE st.exec]]

\* _disable_notification_blocking(): [ok, st, called]
disable_notification_blocking(st, f) ==
    IF ~st.blocking THEN [ok |-> TRUE, st |-> st, called |-> FALSE]
    ELSE IF st.saved = <<>>
    THEN [ok |-> TRUE, st |-> [st EXCEPT !.blocking = FALSE],
          called |-> FALSE]
    ELSE IF f.notif = "ok"
    THEN [ok |-> TRUE,
          st |-> [st EXCEPT !.notif = st.saved, !.blocking = FALSE],
          called |-> TRUE]
    ELSE [ok |-> FALSE, st |-> st, called |-> TRUE]

\* self.presentation_mode_active = False, whatever the reversals returned
ActiveAfterDisableIfReversed(success) == ~success

ActiveAfterDisable(success) == FALSE

\* disable_presentation_mode(): [ret, st, calls]; calls tells whether a host
\* call was made
disable_presentation_mode(st, f) ==
    IF ~st.active
    THEN [ret |-> TRUE, st |-> st, calls |-> FALSE]
    ELSE LET p == IF PowerUnit(st) THEN disable_power_management(st, f)
                  ELSE [ok |-> FALSE, st |-> st]
             n == IF NotifUnit(st)
                  THEN disable_notification_blocking(p.st, f)
                  ELSE [ok |-> FALSE, st |-> p.st, called |-> FALSE]
             total_features == Count(PowerUnit(st)) + Count(NotifUnit(st))
             success_count == Count(p.ok) + Count(n.ok)
             success == aggregate(success_count, total_features)
         IN [ret |-> success,
             st |-> [n.st EXCEPT !.active = ActiveAfterDisable(success)],
             calls |-> PowerUnit(st) \/ n.called]

\* update_settings(config=...): the configured values replace the current
\* ones (get_presentation_controller on a configuration write, and
\* set_presentation_features)
update_settings(st, cfg) == [st EXCEPT !.features = cfg]

\* The outcomes that can differ in an enable of st: a host call that is not
\* reached has no outcome of its own.
EnableFails(st) ==
    LET power == ~st.active /\ PowerUnit(st)
        request == power /\ st.available
        notifs == ~st.active /\ NotifUnit(st)
    IN {f \in GuardFails(IF ~request THEN {"ok"}
                         ELSE IF st.open = Handles THEN {"invalid", "null"}
                         ELSE CreateOutcomes,
                         MayFail(request /\ st.features.disable_screensaver),
                         MayFail(request /\ st.features.prevent_sleep),
                         {FALSE}, {FALSE}, MayFail(power), MayFail(notifs),
                         IF notifs THEN NotifOutcomes ELSE {"ok"}) :
          /\ f.create # "ok" => (~f.display /\ ~f.system)
          /\ (request /\ f.create = "ok" /\ ~f.display /\ ~f.system)
                => ~f.exec}

DisableFails(st) ==
    LET power == st.active /\ PowerUnit(st)
        request == power /\ st.handle # None /\ st.available
        valid == request /\ st.handle # INVALID_HANDLE_VALUE
        notifs == /\ st.active /\ NotifUnit(st) /\ st.blocking
                  /\ st.saved # <<>>
    IN {f \in GuardFails({"ok"},
                         MayFail(valid /\ st.features.disable_screensaver),
                         MayFail(valid /\ st.features.prevent_sleep),
                         MayFail(valid), MayFail(request), MayFail(power),
                         {FALSE},
                         IF notifs THEN NotifOutcomes ELSE {"ok"}) :
          /\ f.raises => (~f.close /\ ~f.display /\ ~f.system)
          /\ (valid /\ ~f.raises /\ ~f.close /\ ~f.display /\ ~f.system)
                => ~f.exec}

\* The call just made, and two facts about the run so far: whether every
\* host call succeeded, and the notification values before the guard wrote
\* any.
NoGuardCall(values) ==
    [name |-> "none", ret |-> FALSE, wasActive |-> FALSE, attempted |-> 0,
     succeeded |-> 0, calls |-> FALSE, allOk |-> TRUE, orig |-> values]

PresentationModeController ==
    /\ features \in FeatureSets
    /\ power_request_available \in BOOLEAN
    /\ power_request_handle = None
    /\ notification_blocking_active = FALSE
    /\ saved_notification_settings = <<>>
    /\ hostHandleOpen = {}
    /\ hostRequests = [h \in Handles |-> {}]
    /\ hostExecState = {}
    /\ hostNotif \in NotifSettings
    /\ guardCall = NoGuardCall(hostNotif)

GuardAtStart ==
    /\ PresentationModeController
    /\ features = [disable_screensaver |-> TRUE, prevent_sleep |-> TRUE,
                   block_notifications |-> FALSE]
    /\ power_request_available
    /\ hostNotif = <<1, 1, 1>>

CallEnable ==
    /\ \E f \in EnableFails(GuardSt) :
          LET r == enable_presentation_mode(GuardSt, f)
          IN /\ SetGuard(r.st)
             /\ guardCall' = [guardCall EXCEPT
                                !.name = "enable", !.ret = r.ret,
                                !.wasActive = presentation_mode_active,
                                !.attempted = r.attempted,
                                !.succeeded = r.succeeded,
                                !.calls = r.attempted > 0,
                                !.allOk = @ /\ f = NoGuardFail]
    /\ UNCHANGED <<coreVars, idleVars, supVars, confVars, renderVars, auxVars>>

CallDisable ==
    /\ \E f \in DisableFails(GuardSt) :
          LET r == disable_presentation_mode(GuardSt, f)
          IN /\ SetGuard(r.st)
             /\ guardCall' = [guardCall EXCEPT
                                !.name = "disable", !.ret = r.ret,
                                !.wasActive = presentation_mode_active,
                                !.attempted = 0, !.succeeded = 0,
                                !.calls = r.calls,
                                !.allOk = @ /\ f = NoGuardFail]
    /\ UNCHANGED <<coreVars, idleVars, supVars, confVars, renderVars, auxVars>>

\* A configuration write reaches update_settings with new feature values.
CallUpdateSettings ==
    /\ \E cfg \in FeatureSets \ {features} :
          SetGuard(update_settings(GuardSt, cfg))
    /\ guardCall' = [guardCall EXCEPT
                       !.name = "update", !.ret = FALSE,
                       !.wasActive = presentation_mode_active,
                       !.attempted = 0, !.succeeded = 0, !.calls = FALSE]
    /\ UNCHANGED <<coreVars, idleVars, supVars, confVars, renderVars, auxVars>>

NextGuard ==
    \/ CallEnable
    \/ CallDisable
    \/ CallUpdateSettings

\* ------------------------- configuration (main.py load_config/save_config)
\* A dictionary is a record with the set of the keys it holds (keys) and one
\* field per recognized key; the field of a key it does not hold is blank.
\* A dictionary of presentation features is the set of the feature keys it
\* holds and the set of those whose value is True.  Intervals and idle times
\* are in seconds.
Keys ==
    {"interval", "media_file", "mute_on_screensaver", "suppress_during_video",
     "suppress_large_window", "enable_presentation_mode",
     "presentation_features"}

FeatureKeys == {"disable_screensaver", "prevent_sleep", "block_notifications"}

FeatureDict(keys, on) == [keys |-> keys, on |-> on]

EmptyDict ==
    [keys |-> {}, interval |-> 0, media_file |-> "",
     mute_on_screensaver |-> FALSE, suppress_during_video |-> FALSE,
     suppress_large_window |-> FALSE, enable_presentation_mode |-> FALSE,
     presentation_features |-> FeatureDict({}, {})]

Has(c, k) == k \in c.keys

\* c.get(k, d)
Get(c, k, d) == IF k \in c.keys THEN c[k] ELSE d

\* c[k] = v
Put(c, k, v) == [c EXCEPT !.keys = @ \cup {k}, ![k] = v]

Drop(c, k) == [c EXCEPT !.keys = @ \ {k}, ![k] = EmptyDict[k]]

RECURSIVE DropAll(_, _)
DropAll(c, K) ==
    IF K = {} THEN c
    ELSE LET k == CHOOSE x \in K : TRUE
         IN DropAll(Drop(c, k), K \ {k})

\* load_config: the dictionary written when there is no file, whose values
\* are also the ones filled in for a key that a parsed file lacks
DefaultConfig ==
    [keys |-> Keys, interval |-> 60, media_file |-> "assets/image.png",
     mute_on_screensaver |-> TRUE, suppress_during_video |-> TRUE,
     suppress_large_window |-> FALSE, enable_presentation_mode |-> FALSE,
     presentation_features |-> FeatureDict(FeatureKeys, FeatureKeys)]

\* the keys load_config looks for, in its order
LoadOrder ==
    <<"mute_on_screensaver", "suppress_during_video", "suppress_large_window",
      "enable_presentation_mode", "presentation_features">>

\* PresentationModeController.__init__: default_config
GuardDefaults ==
    [disable_screensaver |-> TRUE, prevent_sleep |-> TRUE,
     block_notifications |-> FALSE]

\* reinitialize_presentation_controller: the features_config it passes on
features_config(c) ==
    IF Get(c, "enable_presentation_mode", FALSE)
    THEN Get(c, "presentation_features", FeatureDict({}, {}))
    ELSE FeatureDict(FeatureKeys, {})

\* new_features = self.features.copy(); new_features.update(config)
merge_features(feat, fd) ==
    [disable_screensaver |->
         IF "disable_screensaver" \in fd.keys
         THEN "disable_screensaver" \in fd.on ELSE feat.disable_screensaver,
     prevent_sleep |->
         IF "prevent_sleep" \in fd.keys
         THEN "prevent_sleep" \in fd.on ELSE feat.prevent_sleep,
     block_notifications |->
         IF "block_notifications" \in fd.keys
         THEN "block_notifications" \in fd.on ELSE feat.block_notifications]

\* get_presentation_controller: the first call constructs the guard from
\* its defaults, a later one updates the features it has
get_presentation_controller(made, feat, fd) ==
    IF made THEN merge_features(feat, fd) ELSE merge_features(GuardDefaults, fd)

\* save_config on [conf, store, feat, made]: the guard is re-derived inside
\* the try, after the file has been written
save_config(a, persistOk) ==
    IF persistOk
    THEN [a EXCEPT
            !.store = [state |-> "parsed", data |-> a.conf],
            !.feat = get_presentation_controller(a.made, a.feat,
                                                 features_config(a.conf)),
            !.made = TRUE]
    ELSE a

RECURSIVE FillDefaults(_, _, _)
FillDefaults(a, i, persistOk) ==
    IF i > Len(LoadOrder) THEN a
    ELSE LET k == LoadOrder[i]
         IN IF Has(a.conf, k) THEN FillDefaults(a, i + 1, persistOk)
            ELSE FillDefaults(
                     save_config([a EXCEPT !.conf = Put(@, k, DefaultConfig[k])],
                                 persistOk),
                     i + 1, persistOk)

\* load_config: [raised, a].  Only FileNotFoundError is caught around the
\* open and json.load: the exception of a file that cannot be read or
\* parsed leaves load_config and the constructor.
load_config(st, feat, persistOk) ==
    LET none == [conf |-> EmptyDict, store |-> st, feat |-> feat,
                 made |-> FALSE]
        a0 == [none EXCEPT !.conf = IF st.state = "absent" THEN DefaultConfig
                                    ELSE st.data]
        a1 == IF st.state = "absent" THEN save_config(a0, persistOk) ELSE a0
    IN IF st.state = "unreadable"
       THEN [raised |-> TRUE, a |-> none]
       ELSE [raised |-> FALSE, a |-> FillDefaults(a1, 1, persistOk)]

\* One tick of monitor on the dictionary c, with the idle time and the
\* verdict the suppression check gives: [outcome, media, mute].
\*   "monitor_error": self.config['interval'] raises KeyError (status line)
\*   "episode_error": self.config['media_file'] raises KeyError
monitor_tick(c, idleSec, verdict) ==
    LET sup == Get(c, "suppress_during_video", TRUE) /\ verdict
        quiet == [outcome |-> "sleep", media |-> "", mute |-> FALSE]
    IN IF ~Has(c, "interval")
       THEN [quiet EXCEPT !.outcome = "monitor_error"]
       ELSE IF idleSec > c.interval /\ ~sup
       THEN IF ~Has(c, "media_file")
            THEN [quiet EXCEPT !.outcome = "episode_error"]
            ELSE [outcome |-> "rendered", media |-> c.media_file,
                  mute |-> Get(c, "mute_on_screensaver", FALSE)]
       ELSE quiet

\* The files found at start: none, one that cannot be read or parsed, or a
\* parsed dictionary that holds every key, lacks one key, or lacks all.
StoredFeatureDicts ==
    {FeatureDict(FeatureKeys, FeatureKeys),
     FeatureDict({"block_notifications"}, {"block_notifications"}),
     FeatureDict({}, {})}

StoredDict(en, pf) ==
    [keys |-> Keys, interval |-> 30, media_file |-> "custom.png",
     mute_on_screensaver |-> FALSE, suppress_during_video |-> FALSE,
     suppress_large_window |-> TRUE, enable_presentation_mode |-> en,
     presentation_features |-> pf]

Lacking == {{}, Keys} \cup {{k} : k \in Keys}

Stores ==
    {[state |-> "absent", data |-> EmptyDict],
     [state |-> "unreadable", data |-> EmptyDict]}
        \cup {[state |-> "parsed", data |-> DropAll(StoredDict(en, pf), L)] :
                en \in BOOLEAN, pf \in StoredFeatureDicts, L \in Lacking}

IdleValues == {10, 45, 100}

IntervalChoices == {30, 90}

NoCfgCall ==
    [name |-> "none", idle |-> 0, sup |-> FALSE,
     result |-> [outcome |-> "sleep", media |-> "", mute |-> FALSE]]

guardRest == <<power_request_available, power_request_handle,
               notification_blocking_active, saved_notification_settings,
               hostRequests, hostHandleOpen, hostExecState, hostNotif,
               guardCall>>

InitConfiguration ==
    /\ store \in Stores
    /\ settings = EmptyDict
    /\ boot = "new"
    /\ cfgCall = NoCfgCall

ConfigurationAtStart ==
    /\ InitConfiguration
    /\ store = [state |-> "absent", data |-> EmptyDict]

\* main(): controller = ScreensaverController(): load_config, then the
\* guard is fetched for the loaded configuration and the poll thread is
\* started; an exception of the constructor ends main().
Construct ==
    /\ boot = "new"
    /\ \E persistOk \in BOOLEAN :
          LET r == load_config(store, features, persistOk)
          IN IF r.raised
             THEN /\ boot' = "fatal"
                  /\ UNCHANGED <<store, settings, features>>
             ELSE /\ boot' = "running"
                  /\ settings' = r.a.conf
                  /\ store' = r.a.store
                  /\ features' = get_presentation_controller(
                                     r.a.made, r.a.feat,
                                     features_config(r.a.conf))
    /\ cfgCall' = NoCfgCall
    /\ UNCHANGED <<coreVars, presentation_mode_active, idleVars, supVars,
                   guardRest, renderVars, auxVars>>

\* A tick of the poll thread on the loaded configuration.
MonitorTick ==
    /\ boot = "running"
    /\ \E idleSec \in IdleValues, verdict \in BOOLEAN :
          cfgCall' = [name |-> "tick", idle |-> idleSec, sup |-> verdict,
                      result |-> monitor_tick(settings, idleSec, verdict)]
    /\ UNCHANGED <<store, settings, boot>>
    /\ UNCHANGED <<coreVars, presentation_mode_active, idleVars, supVars,
                   guardVars, renderVars, auxVars>>

\* A tray callback: self.controller.config[k] = v; save_config()
ConfigWrite(k, v) ==
    /\ boot = "running"
    /\ \E persistOk \in BOOLEAN :
          LET a == save_config([conf |-> Put(settings, k, v), store |-> store,
                                feat |-> features, made |-> TRUE], persistOk)
          IN /\ settings' = a.conf
             /\ store' = a.store
             /\ features' = a.feat
    /\ cfgCall' = NoCfgCall
    /\ UNCHANGED boot
    /\ UNCHANGED <<coreVars, presentation_mode_active, idleVars, supVars,
                   guardRest, renderVars, auxVars>>

ConfigToggleMute ==
    ConfigWrite("mute_on_screensaver",
                ~Get(settings, "mute_on_screensaver", TRUE))

ConfigToggleVideoSuppress ==
    ConfigWrite("suppress_during_video",
                ~Get(settings, "suppress_during_video", TRUE))

ConfigTogglePresentation ==
    ConfigWrite("enable_presentation_mode",
                ~Get(settings, "enable_presentation_mode", FALSE))

ConfigSetInterval ==
    \E sec \in IntervalChoices :
        /\ Get(settings, "interval", 300) # sec
        /\ ConfigWrite("interval", sec)

NextConfig ==
    \/ Construct
    \/ MonitorTick
    \/ ConfigToggleMute
    \/ ConfigToggleVideoSuppress
    \/ ConfigTogglePresentation
    \/ ConfigSetInterval

\* ------------------------------------- overlay renderer (screensaver.py)
\* The media file: its extension as written, whether it can be loaded
\* (Image.open / VideoCapture.isOpened), the frames a video holds, and
\* whether the global input hooks (pynput) are there.
MaxFrames == 2

Extensions == {".png", ".JPG", ".mp4", ".avi", ".gif", ""}

\* os.path.splitext(media_file)[1].lower()
LowerExt(e) == IF e = ".JPG" THEN ".jpg" ELSE e

ImageExts == {".png", ".jpg", ".jpeg", ".bmp"}

VideoExts == {".mp4", ".avi", ".mov"}

InputKinds == {"motion", "click", "key"}

MediaFiles ==
    [ext : Extensions, loadable : BOOLEAN, frames : 0..MaxFrames,
     hooks : BOOLEAN]

RendererIdle == [pc |-> "idle", frame |-> 0, input |-> "none", why |-> "none"]

Returned(why, input) ==
    [pc |-> "returned", frame |-> 0, input |-> input, why |-> why]

\* show_screensaver up to the event loop of show_image / show_video
show_screensaver(m) ==
    LET ext == LowerExt(m.ext)
    IN IF ext \in ImageExts
       THEN IF m.loadable
            THEN [RendererIdle EXCEPT !.pc = "image"]
            ELSE Returned("load_error", "none")
       ELSE IF ext \in VideoExts
       THEN IF m.loadable
            THEN [RendererIdle EXCEPT !.pc = "video"]
            ELSE Returned("open_failed", "none")
       ELSE Returned("unsupported", "none")

\* Whether the running renderer observes an input event of this kind:
\* show_image binds Motion, Key and Button; show_video has the key of
\* cv2.waitKey and, with the hooks, the global listeners.
Observes(r, m, kind) ==
    \/ r.pc = "image"
    \/ r.pc = "video" /\ (m.hooks \/ kind = "key")

InitRenderer ==
    /\ media \in MediaFiles
    /\ rnd = RendererIdle

RendererAtStart ==
    /\ media = [ext |-> ".png", loadable |-> TRUE, frames |-> 0,
                hooks |-> TRUE]
    /\ rnd = RendererIdle

\* show_screensaver(media_file) is called
ShowScreensaver ==
    /\ rnd.pc \in {"idle", "returned"}
    /\ rnd' = show_screensaver(media)
    /\ UNCHANGED media
    /\ UNCHANGED <<coreVars, presentation_mode_active, idleVars, supVars,
                   guardVars, confVars, auxVars>>

\* The user moves the pointer, clicks or presses a key while the overlay is
\* up: close() / global_close() end the event loop.
RendererInput ==
    /\ rnd.pc \in {"image", "video"}
    /\ \E kind \in InputKinds :
          /\ Observes(rnd, media, kind)
          /\ rnd' = Returned("input", kind)
    /\ UNCHANGED media
    /\ UNCHANGED <<coreVars, presentation_mode_active, idleVars, supVars,
                   guardVars, confVars, auxVars>>

\* show_video: ret, frame = cap.read(); if not ret: break
VideoFrame ==
    /\ rnd.pc = "video"
    /\ rnd' = IF rnd.frame < media.frames
              THEN [rnd EXCEPT !.frame = @ + 1]
              ELSE Returned("end_of_media", "none")
    /\ UNCHANGED media
    /\ UNCHANGED <<coreVars, presentation_mode_active, idleVars, supVars,
                   guardVars, confVars, auxVars>>

NextRenderer ==
    \/ ShowScreensaver
    \/ RendererInput
    \/ VideoFrame

\* ------------------------- window snapshot (lock.py, lines 197-253)
\* GetWindowPlacement(hwnd)[1], or None when the call raises: is_maximized
\* keeps its initial False ("except: pass").
window_placement(w, placementFails) ==
    IF placementFails THEN None ELSE w.show_state

NoSnapshot ==
    [called |-> FALSE, ok |-> FALSE, placement |-> None,
     is_fullscreen |-> FALSE]

\* get_foreground_window_info(): None without a window, else the
\* dictionary; of it the model keeps is_fullscreen and, as history, the
\* show state the placement query gave.
get_foreground_window_info(w, placementFails) ==
    IF ~w.ok
    THEN [NoSnapshot EXCEPT !.called = TRUE]
    ELSE [called |-> TRUE, ok |-> TRUE,
          placement |-> window_placement(w, placementFails),
          is_fullscreen |->
              is_fullscreen([w EXCEPT !.show_state =
                                 window_placement(w, placementFails)])]

WindowQueryAtStart == snap = NoSnapshot

CallGetForegroundWindowInfo ==
    /\ \E placementFails \in BOOLEAN :
          snap' = get_foreground_window_info(fg, placementFails)
    /\ UNCHANGED <<coreVars, presentation_mode_active, idleVars, supVars,
                   guardVars, confVars, renderVars, auxButSnap>>

NextWindow == CallGetForegroundWindowInfo

\* ---- the endpoint fallback of mute_for_screensaver (audio_devices.py)
\* What one call did at the endpoint: whether set_mute(True) was accepted,
\* whether the check after it read the endpoint as muted, whether
\* set_volume(0.0) was called and accepted, and the endpoint volume before
\* the call.
\* the number of observed calls in one run of the fallback specification
MaxMuteCalls == 2

NoFallback ==
    [calls |-> 0, called |-> FALSE, muteOk |-> FALSE, readMuted |-> FALSE,
     volWrite |-> FALSE, volOk |-> FALSE, volBefore |-> None]

FallbackAtStart == fb = NoFallback

CallMuteObserved ==
    \E f \in MuteFails(AudioSt) :
        LET r == mute_for_screensaver(AudioSt, f)
        IN /\ fb.calls < MaxMuteCalls
           /\ SetAudio(r.st)
           /\ lastCall' = [CallRec("mute", previous_mute_state # None,
                                   FALSE, FALSE)
                               EXCEPT !.ret = r.ret, !.effect = r.effect]
           /\ fb' = [calls |-> fb.calls + 1, called |-> TRUE, muteOk |-> r.muteOk,
                     readMuted |-> r.readMuted, volWrite |-> r.volWrite,
                     volOk |-> r.volOk, volBefore |-> devVol]
           /\ UNCHANGED <<ctlVars, pollVars, mainPc, hostVars, histVars,
                          idleVars, supVars, guardVars, confVars, renderVars,
                          auxButFb>>

NextFallback ==
    \/ CallMuteObserved
    \/ HostDeviceChange

\* ---- system cursor (cursor_control.py) under show_image (screensaver.py)
\* ShowCursor(bShow) moves the display counter of the host by one and
\* returns it; the cursor is drawn while the counter is not negative.
CursorCounts == {-1, 0, 1}

\* hide_cursor: count = 0; while count >= 0 and count < 100:
\*                  count = ShowCursor(False)
RECURSIVE HideLoop(_, _)
HideLoop(host, count) ==
    IF count >= 0 /\ count < 100
    THEN HideLoop(host - 1, host - 1)
    ELSE [host |-> host, count |-> count]

\* show_cursor: count = self._original_cursor_count
\*              while count < 0: count = ShowCursor(True)
RECURSIVE ShowLoop(_, _)
ShowLoop(host, count) ==
    IF count < 0
    THEN ShowLoop(host + 1, host + 1)
    ELSE [host |-> host, count |-> count]

\* hide_cursor() / show_cursor(): [ret, c]; raises: the ShowCursor call
\* raises, which the method catches and answers with False
hide_cursor(c, raises) ==
    IF c.hidden THEN [ret |-> TRUE, c |-> c]
    ELSE IF raises THEN [ret |-> FALSE, c |-> c]
    ELSE LET l == HideLoop(c.count, 0)
         IN [ret |-> TRUE,
             c |-> [c EXCEPT !.hidden = TRUE, !.orig = l.count,
                             !.count = l.host]]

show_cursor(c, raises) ==
    IF ~c.hidden THEN [ret |-> TRUE, c |-> c]
    ELSE IF raises THEN [ret |-> FALSE, c |-> c]
    ELSE [ret |-> TRUE,
          c |-> [c EXCEPT !.hidden = FALSE,
                          !.count = ShowLoop(c.count, c.orig).host]]

\* CursorController() with the host counter at k, and show_image not called
CursorStart(k) ==
    [hidden |-> FALSE, orig |-> 0, count |-> k,
     pc |-> "idle", why |-> "none", cursor_hidden |-> FALSE,
     showRaised |-> FALSE]

CursorAtStart == cur = CursorStart(0)

\* show_image up to root.mainloop(): cursor_hidden = hide_system_cursor(),
\* then the image is loaded; a load error destroys the window and returns
ShowImageCall ==
    /\ cur.pc \in {"idle", "returned"}
    /\ \E raises \in BOOLEAN :
          LET h == hide_cursor(cur, raises)
          IN cur' = [h.c EXCEPT
                       !.cursor_hidden = h.ret,
                       !.showRaised = FALSE,
                       !.pc = IF media.loadable THEN "mainloop"
                              ELSE "returned",
                       !.why = IF media.loadable THEN "none"
                               ELSE "load_error"]
    /\ UNCHANGED <<coreVars, presentation_mode_active, idleVars, supVars,
                   guardVars, confVars, renderVars, auxButCur>>

\* if cursor_hidden: show_system_cursor()
ShowIfHidden(c, raises) ==
    IF c.cursor_hidden
    THEN LET s == show_cursor(c, raises)
         IN [s.c EXCEPT !.showRaised = c.showRaised \/ ~s.ret]
    ELSE c

\* An input event runs close(), which shows the cursor and ends the
\* event loop; the finally clause after root.mainloop() shows it again.
ImageClosed ==
    /\ cur.pc = "mainloop"
    /\ \E r1 \in BOOLEAN, r2 \in BOOLEAN :
          cur' = [ShowIfHidden(ShowIfHidden(cur, r1), r2) EXCEPT
                     !.pc = "returned", !.why = "input"]
    /\ UNCHANGED <<coreVars, presentation_mode_active, idleVars, supVars,
                   guardVars, confVars, renderVars, auxButCur>>

\* root.mainloop() raises: except Exception (log), then the finally clause
ImageMainloopError ==
    /\ cur.pc = "mainloop"
    /\ \E r \in BOOLEAN :
          cur' = [ShowIfHidden(cur, r) EXCEPT
                     !.pc = "returned", !.why = "mainloop_error"]
    /\ UNCHANGED <<coreVars, presentation_mode_active, idleVars, supVars,
                   guardVars, confVars, renderVars, auxButCur>>

NextCursor ==
    \/ ShowImageCall
    \/ ImageClosed
    \/ ImageMainloopError

\* ---- single-instance lock (lock.py SingleInstanceWithAlert)
\* The processes that start the application; a process id is its number.
MaxProcs == 2

Procs == 1..MaxProcs

\* The lock file: whether the path exists and the pid it holds (0: empty).
\* self.fp of a process: whether it is open, and whether the file it was
\* opened on is still the one at the path (linked).
NoFile == [exists |-> FALSE, pid |-> 0]

NoFp == [open |-> FALSE, linked |-> FALSE]

LockStart ==
    [file |-> NoFile,
     p |-> [q \in Procs |-> [pc |-> "acquire", fp |-> NoFp, ret |-> "none"]]]

LockAtStart == lk = LockStart

ProcStep(q, at, handle, result) ==
    [lk.p EXCEPT ![q] = [pc |-> at, fp |-> handle, ret |-> result]]

\* psutil.Process(pid) is a running process of the application
ProcRunning(q) == lk.p[q].pc # "exited"

\* _is_pid_valid(): the file is read; a missing file, an empty file and a
\* pid that is not a running process give False
is_pid_valid(file) ==
    /\ file.exists
    /\ file.pid > 0
    /\ file.pid \in Procs
    /\ ProcRunning(file.pid)

\* os.remove(self.lockfile) by process q: while another process has the
\* file open the host either refuses (sharing violation, an OSError) or
\* unlinks it; done tells which.
HeldOpenByOther(q) ==
    \E o \in Procs \ {q} : lk.p[o].fp.open /\ lk.p[o].fp.linked

RemoveOutcomes(q) == IF HeldOpenByOther(q) THEN BOOLEAN ELSE {TRUE}

Unlinked(procs) ==
    [o \in Procs |-> [procs[o] EXCEPT !.fp.linked = FALSE]]

\* acquire(): if os.path.exists(self.lockfile):
AcqExists(q) ==
    /\ lk.p[q].pc = "acquire"
    /\ lk' = [lk EXCEPT !.p = ProcStep(q, IF lk.file.exists THEN "validate"
                                           ELSE "open", NoFp, "none")]

\* if self._is_pid_valid(): alert; return False
AcqValidate(q) ==
    /\ lk.p[q].pc = "validate"
    /\ lk' = [lk EXCEPT !.p = IF is_pid_valid(lk.file)
                              THEN ProcStep(q, "refused", NoFp, "false")
                              ELSE ProcStep(q, "remove", NoFp, "none")]

\* else: try: os.remove(self.lockfile) except OSError: pass
AcqRemoveStale(q) ==
    /\ lk.p[q].pc = "remove"
    /\ \E done \in RemoveOutcomes(q) :
          lk' = IF lk.file.exists /\ done
                THEN [file |-> NoFile,
                      p |-> [Unlinked(lk.p) EXCEPT ![q].pc = "open"]]
                ELSE [lk EXCEPT !.p = ProcStep(q, "open", NoFp, "none")]

\* self.fp = open(self.lockfile, 'w'): creates or truncates the file;
\* except Exception: return False
AcqOpen(q) ==
    /\ lk.p[q].pc = "open"
    /\ \E raises \in BOOLEAN :
          lk' = IF raises
                THEN [lk EXCEPT !.p = ProcStep(q, "refused", NoFp, "false")]
                ELSE [file |-> [exists |-> TRUE, pid |-> 0],
                      p |-> ProcStep(q, "write",
                                     [open |-> TRUE, linked |-> TRUE],
                                     "none")]

\* self.fp.write(str(os.getpid())); self.fp.flush(); return True
AcqWrite(q) ==
    /\ lk.p[q].pc = "write"
    /\ lk' = [file |-> IF lk.p[q].fp.linked
                       THEN [exists |-> TRUE, pid |-> q]
                       ELSE lk.file,
              p |-> ProcStep(q, "holding", lk.p[q].fp, "true")]

\* release(): self.fp is closed; then
\*   if os.path.exists(self.lockfile): os.remove(self.lockfile)
\* whoever the file belongs to (an exception of the removal is logged)
release(q, done) ==
    IF lk.file.exists /\ done
    THEN [file |-> NoFile,
          p |-> [Unlinked(lk.p) EXCEPT
                    ![q] = [pc |-> "released", fp |-> NoFp,
                            ret |-> lk.p[q].ret]]]
    ELSE [lk EXCEPT !.p = ProcStep(q, "released", NoFp, lk.p[q].ret)]

Release(q) ==
    /\ lk.p[q].pc \in {"holding", "refused"}
    /\ \E done \in RemoveOutcomes(q) : lk' = release(q, done)

\* The process ends, after release() or without it (killed): its handle
\* is closed by the host and the file stays.
ProcExit(q) ==
    /\ lk.p[q].pc \in {"holding", "released"}
    /\ lk' = [lk EXCEPT !.p = ProcStep(q, "exited", NoFp, lk.p[q].ret)]

LockUnchanged ==
    UNCHANGED <<coreVars, presentation_mode_active, idleVars, supVars,
                guardVars, confVars, renderVars, auxButLk>>

NextLock ==
    \/ \E q \in Procs : AcqExists(q) /\ LockUnchanged
    \/ \E q \in Procs : AcqValidate(q) /\ LockUnchanged
    \/ \E q \in Procs : AcqRemoveStale(q) /\ LockUnchanged
    \/ \E q \in Procs : AcqOpen(q) /\ LockUnchanged
    \/ \E q \in Procs : AcqWrite(q) /\ LockUnchanged
    \/ \E q \in Procs : Release(q) /\ LockUnchanged
    \/ \E q \in Procs : ProcExit(q) /\ LockUnchanged

\* ---- stop() on the Presentation Mode Guard and the tray (main.py)
\* the calls of stop() followed in one run
MaxStops == 3

NoStop == [stops |-> 0, guardCalls |-> 0, trayCalls |-> 0, exited |-> FALSE]

StopAtStart == stp = NoStop

\* if self.stopping: return
AlreadyStoppingIgnored(s) == FALSE

AlreadyStopping(s) == s

\* stop(): the flags are set; the guard is disabled if it is active
\* (disable_presentation_mode catches every exception of its host calls);
\* then self.tray.stop() is called, whose own handler ends the process
\* (os._exit(0)) when stopping the icon raises.
CallStop ==
    /\ ~stp.exited
    /\ stp.stops < MaxStops
    /\ IF AlreadyStopping(stopping)
       THEN /\ stp' = [stp EXCEPT !.stops = @ + 1]
            /\ UNCHANGED <<running, stopping, presentation_mode_active,
                           guardVars>>
       ELSE \E f \in DisableFails(GuardSt), iconRaises \in BOOLEAN :
              LET r == disable_presentation_mode(GuardSt, f)
              IN /\ stopping' = TRUE
                 /\ running' = FALSE
                 /\ SetGuard(r.st)
                 /\ guardCall' = guardCall
                 /\ stp' = [stops |-> IF iconRaises THEN stp.stops
                                      ELSE stp.stops + 1,
                            guardCalls |-> stp.guardCalls
                                + Count(presentation_mode_active),
                            trayCalls |-> stp.trayCalls + 1,
                            exited |-> iconRaises]
    /\ UNCHANGED <<audioVars, config, showing, pollVars, mainPc, hostVars,
                   histVars, idleVars, supVars, confVars, renderVars,
                   auxButStp>>

NextStop ==
    \/ CallEnable
    \/ CallStop

AuxAtStart ==
    /\ WindowQueryAtStart
    /\ FallbackAtStart
    /\ CursorAtStart
    /\ LockAtStart
    /\ StopAtStart

\* In the controller specification the mixer starts from one setting per
\* mute flag; the guard's own calls (and their failures) move it from there.
InitAudioCtl ==
    /\ InitAudio
    /\ devVol = 7
    /\ \A s \in Sessions : ~sess[s].active

\* The controller and the Audio Guard as constructed, for the
\* specifications of the other components, where they do not run.
InitCore ==
    /\ InitAudioCtl
    /\ InitController
    /\ volume_interface
    /\ devMute = 0
    /\ config = [interval |-> 1, mute_on_screensaver |-> TRUE,
                 suppress_during_video |-> TRUE,
                 enable_presentation_mode |-> FALSE]
    /\ ~hostSuppress

InitExt ==
    /\ IdleSamplerAtBoot
    /\ SuppressionAtStart
    /\ GuardAtStart
    /\ ConfigurationAtStart
    /\ RendererAtStart
    /\ AuxAtStart

Init == InitAudioCtl /\ InitController /\ InitExt

Spec == Init /\ [][Next]_vars

\* In the audio specification the controller does not run.
InitA ==
    /\ InitAudio
    /\ InitController
    /\ config.interval = 1
    /\ config.mute_on_screensaver
    /\ config.suppress_during_video
    /\ ~config.enable_presentation_mode
    /\ ~hostSuppress
    /\ InitExt

SpecAudio == InitA /\ [][NextAudio]_vars

InitIdle ==
    /\ InitCore
    /\ InitIdleSampler
    /\ SuppressionAtStart
    /\ GuardAtStart
    /\ ConfigurationAtStart
    /\ RendererAtStart
    /\ AuxAtStart

SpecIdle == InitIdle /\ [][NextIdle]_vars

InitSuppress ==
    /\ InitCore
    /\ IdleSamplerAtBoot
    /\ InitSuppression
    /\ GuardAtStart
    /\ ConfigurationAtStart
    /\ RendererAtStart
    /\ AuxAtStart

SpecSuppress == InitSuppress /\ [][NextSuppress]_vars

InitSlideShow ==
    /\ InitCore
    /\ IdleSamplerAtBoot
    /\ InitSlides
    /\ GuardAtStart
    /\ ConfigurationAtStart
    /\ RendererAtStart
    /\ AuxAtStart

SpecSlides == InitSlideShow /\ [][NextSuppress]_vars

InitProbeFailures ==
    /\ InitCore
    /\ IdleSamplerAtBoot
    /\ InitFailures
    /\ GuardAtStart
    /\ ConfigurationAtStart
    /\ RendererAtStart
    /\ AuxAtStart

SpecFailures == InitProbeFailures /\ [][NextSuppress]_vars

InitProbe ==
    /\ InitCore
    /\ IdleSamplerAtBoot
    /\ InitCache
    /\ GuardAtStart
    /\ ConfigurationAtStart
    /\ RendererAtStart
    /\ AuxAtStart

SpecCache == InitProbe /\ [][NextCache]_vars

InitGuard ==
    /\ InitCore
    /\ IdleSamplerAtBoot
    /\ SuppressionAtStart
    /\ PresentationModeController
    /\ ConfigurationAtStart
    /\ RendererAtStart
    /\ AuxAtStart

SpecGuard == InitGuard /\ [][NextGuard]_vars

InitConfig ==
    /\ InitCore
    /\ IdleSamplerAtBoot
    /\ SuppressionAtStart
    /\ GuardAtStart
    /\ InitConfiguration
    /\ RendererAtStart
    /\ AuxAtStart

SpecConfig == InitConfig /\ [][NextConfig]_vars

InitRender ==
    /\ InitCore
    /\ IdleSamplerAtBoot
    /\ SuppressionAtStart
    /\ GuardAtStart
    /\ ConfigurationAtStart
    /\ InitRenderer
    /\ AuxAtStart

SpecRenderer == InitRender /\ [][NextRenderer]_vars

\* Window snapshot: any foreground window (or none).
InitWindow ==
    /\ InitCore
    /\ IdleSamplerAtBoot
    /\ fg \in Windows
    /\ suppress_large_window = FALSE
    /\ players = {}
    /\ video_playing_cache = EmptyCache
    /\ now = StartTime
    /\ slide = <<>>
    /\ com = "ok"
    /\ supCall = NoSupCall
    /\ GuardAtStart
    /\ ConfigurationAtStart
    /\ RendererAtStart
    /\ AuxAtStart

SpecWindow == InitWindow /\ [][NextWindow]_vars

SpecFallback == InitA /\ [][NextFallback]_vars

\* show_image on every image file, from every modelled display counter
InitCursor ==
    /\ InitCore
    /\ IdleSamplerAtBoot
    /\ SuppressionAtStart
    /\ GuardAtStart
    /\ ConfigurationAtStart
    /\ media \in {m \in MediaFiles : LowerExt(m.ext) \in ImageExts}
    /\ rnd = RendererIdle
    /\ WindowQueryAtStart
    /\ FallbackAtStart
    /\ LockAtStart
    /\ StopAtStart
    /\ \E k \in CursorCounts : cur = CursorStart(k)

SpecCursor == InitCursor /\ [][NextCursor]_vars

\* every process is about to call acquire()
InitLock ==
    /\ InitCore
    /\ InitExt

SpecLock == InitLock /\ [][NextLock]_vars

\* stop() on every guard, enabled or not
SpecStop == InitGuard /\ [][NextStop]_vars

\* ================================================================ claims

\* A step that is a direct call of VolumeController (SpecAudio): every other
\* step of SpecAudio resets lastCall.
IsCall(name) == lastCall'.name = name

IdlePcs == {"check", "probe", "backoff", "decide", "sleep", "done"}

\* C1: whenever the controller is back in Idle (showing false, the poll
\* thread outside the episode), every mute of the Audio Guard has been
\* paired with a restore: the guard holds no saved record.
C1_MutePairedAtIdle ==
    (pc \in IdlePcs /\ ~showing) => previous_mute_state = None

\* C2: after an episode whose renderer raised, the showing flag is false,
\* the audio restore ran once for the mute applied and the Presentation Mode
\* Guard disable ran once when presentation mode was configured.
C2_RaiseReleasesOnce ==
    (pc = "sleep" /\ ep.raised) =>
        /\ ~showing
        /\ ~exc
        /\ ep.restores = ep.muteCalls
        /\ (ep.presentation => ep.disables = 1)

C4_CaptureWriteOnce ==
    [][(IsCall("mute") /\ previous_mute_state # None) =>
          UNCHANGED <<previous_mute_state, previous_volume,
                      touched_sessions>>]_vars

\* a second mute call found the record of an unmuted device while the device
\* was muted by the first
C4_Witness ==
    /\ lastCall.name = "mute" /\ lastCall.saved
    /\ previous_mute_state = 0
    /\ devMute = 1

\* C5: a restore called with no saved record does not raise, writes nothing
\* to the mixer and leaves the record empty.
C5_RestoreWithoutRecordIsNoop ==
    [][(IsCall("restore") /\ previous_mute_state = None) =>
          /\ ~lastCall'.raised
          /\ UNCHANGED <<devMute, devVol, sess>>
          /\ previous_mute_state' = None
          /\ previous_volume' = None
          /\ touched_sessions' = <<>>]_vars

\* C6: the decision of a tick starts an episode iff the sampled idle time is
\* strictly above the configured interval, the verdict is false and showing
\* is false; a poll step outside an episode leaves the showing flag, the
\* Audio Guard and the renderer alone.
C6_TriggerIff ==
    [][/\ (pc = "decide" /\ pc' # pc) =>
             ((showing' /\ pc' = "enter") <=>
                  (idle > config.interval /\ ~suppress /\ ~showing))
       /\ (pc \in IdlePcs /\ pc' \in IdlePcs) =>
             UNCHANGED <<showing, volume_interface, previous_mute_state,
                         previous_volume, touched_sessions, devMute, devVol,
                         sess, activeRenders>>]_vars

\* an episode has been started
C6_Witness == pc = "enter" /\ showing /\ hostIdle > config.interval

\* C7: in one idle period (idle above the threshold, no input, no
\* suppression) the renderer is invoked at most once.
C7_OncePerIdlePeriod == epRenders <= 1

\* C8: while the renderer runs in an episode entered with presentation mode
\* configured, the Presentation Mode Guard is active.
C8_GuardActiveWhileRendering ==
    (pc = "rendering" /\ ep.presentation) => presentation_mode_active

\* C9: the showing flag is true exactly while the poll thread is inside an
\* episode, no probe runs while it is true, at most one renderer call is in
\* progress, and only a step of the poll thread changes the flag.
C9_OneEpisodeAtATime ==
    /\ [](/\ showing <=> pc \in EpisodePcs
          /\ activeRenders <= 1
          /\ activeRenders = 1 <=> pc = "rendering")
    /\ [][showing' # showing => pc' # pc]_vars

\* the overlay is up
C9_Witness == showing /\ pc = "rendering" /\ activeRenders = 1

\* C10: when stop() was called while the renderer was running, the process
\* does not end before the renderer call has completed and the episode has
\* been released.
C10_StopWaitsForEpisode ==
    (mainPc = "exited" /\ stopDuring) => (~showing /\ activeRenders = 0)

\* C11: the poll loop ends only after a stop request, and a failure inside
\* a tick never ends it or leaves the showing flag set: the loop leaves for
\* "done" only with running false; a tick that raised outside the episode
\* goes to the backoff sleep and from there to the next loop test; an
\* episode, raised or not, is left through the step that clears showing;
\* showing is set only inside an episode; the thread is gone only after a
\* stop request.
C11_LoopEndsOnlyOnStop ==
    [][/\ (pc # "done" /\ pc' = "done") => ~running
       /\ (pc = "probe" /\ pc' # pc) => pc' \in {"decide", "backoff"}
       /\ (pc = "backoff" /\ pc' # pc) => pc' = "check"
       /\ (pc = "clear" /\ pc' # pc) => (pc' = "sleep" /\ ~showing')
       /\ showing' => pc' \in EpisodePcs
       /\ (pc' = "done" \/ mainPc' = "exited") => stopping'
      ]_vars

\* A tick raised while running is true and the loop is in its backoff sleep.
C11_Witness == pc = "backoff" /\ running /\ Alive

\* A call of should_suppress_screensaver was just made with a window in
\* front that is_video_player_window recognizes.
PlayerCall == supCall.name = "should_suppress" /\ is_video_player_window(fg)

\* C12: should_suppress returns true whenever the foreground window is a
\* recognized player window, is fullscreen and the probe confirmed playback,
\* whatever the large-window option and the window's title and class.
C12_FullscreenPlayingSuppresses ==
    (PlayerCall /\ is_fullscreen(fg) /\ supCall.video_playing) => supCall.ret

\* A fullscreen streaming-service window with playback confirmed, the
\* large-window option off, and the call answered true.
C12_Witness ==
    /\ PlayerCall /\ is_fullscreen(fg) /\ supCall.video_playing
    /\ ~suppress_large_window
    /\ supCall.ret

\* C13: should_suppress returns false whenever the foreground window is a
\* recognized player window that is fullscreen while the probe reports no
\* playback, for every title and class is_video_player_window recognizes.
C13_FullscreenNotPlayingFalse ==
    (PlayerCall /\ is_fullscreen(fg) /\ ~supCall.video_playing)
        => ~supCall.ret

\* C14: should_suppress returns false for a recognized player window with
\* confirmed playback that is not fullscreen when the large-window option is
\* off, whatever its size, title and class.
C14_WindowedOptionOffFalse ==
    (/\ PlayerCall /\ ~is_fullscreen(fg) /\ supCall.video_playing
     /\ ~suppress_large_window) => ~supCall.ret

\* A large player window (beyond 1200 x 800) that is not fullscreen, playback
\* confirmed, option off: the call answered false.
C14_Witness ==
    /\ PlayerCall /\ ~is_fullscreen(fg) /\ supCall.video_playing
    /\ ~suppress_large_window
    /\ fg.width > 1200 /\ fg.height > 800
    /\ ~supCall.ret

\* A media shape whose playback state was read from the automation
\* interface as playing (MediaFormat.PlayState or the OLE object's state).
ReadAsPlaying(shape) ==
    \/ shape.MediaFormat /\ shape.readable /\ shape.PlayState = 1
    \/ shape.ole = 1

\* C15: the slide show step of should_suppress answers true only if the
\* playback state of some media shape was read as playing; a shape whose
\* state could not be read never causes suppression, whatever its static
\* properties.
C15_SuppressOnlyOnReadState ==
    (/\ supCall.name = "should_suppress"
     /\ supCall.step = "slideshow_com"
     /\ supCall.ret)
        => \E i \in 1..Len(slide) : ReadAsPlaying(slide[i])

\* C16: a call of is_video_playing less than cache_duration after the cached
\* timestamp returns the cached result, enumerates and samples nothing and
\* leaves the cache as it is; a call at or after the expiry enumerates the
\* processes again and overwrites both fields: a new timestamp, not before
\* the call, and the result it returns.
C16_CacheWithinTTL ==
    [][supCall'.name = "is_video_playing" =>
          IF now - video_playing_cache.timestamp < 15
          THEN /\ supCall'.ret = video_playing_cache.result
               /\ ~supCall'.enumerated
               /\ ~supCall'.sampled
               /\ video_playing_cache' = video_playing_cache
          ELSE /\ supCall'.enumerated
               /\ video_playing_cache'.timestamp >= now
               /\ video_playing_cache'.timestamp >
                      video_playing_cache.timestamp
               /\ video_playing_cache'.result = supCall'.ret
      ]_vars

\* A call answered "playing" from the cache, without a look at the
\* processes, one second after the sampling that filled the cache.
C16_Witness ==
    /\ supCall.name = "is_video_playing"
    /\ ~supCall.enumerated
    /\ supCall.ret
    /\ video_playing_cache.result
    /\ now - video_playing_cache.timestamp = 10

\* C17: an enable made while the guard is inactive attempts one unit for
\* power management (disable_screensaver or prevent_sleep configured) and
\* one for notification blocking (block_notifications configured); it
\* returns true, and the guard is active afterwards, exactly when at least
\* one attempted unit succeeded and the units that succeeded are at least
\* half of those attempted; otherwise it returns false and the guard is
\* inactive.  1 of 2 gives true, 1 of 3 false, nothing configured false.
C17_EnableHalfOfUnits ==
    /\ (guardCall.name = "enable" /\ ~guardCall.wasActive) =>
          /\ guardCall.attempted
                = Count(features.disable_screensaver \/ features.prevent_sleep)
                    + Count(features.block_notifications)
          /\ guardCall.succeeded <= guardCall.attempted
          /\ guardCall.ret <=> presentation_mode_active
          /\ presentation_mode_active
                <=> (/\ guardCall.succeeded >= 1
                     /\ 2 * guardCall.succeeded >= guardCall.attempted)
    /\ aggregate(1, 2)
    /\ ~aggregate(1, 3)
    /\ ~aggregate(0, 0)

\* an enable in which one of the two units failed and the guard became
\* active
C17_Witness ==
    /\ guardCall.name = "enable"
    /\ ~guardCall.wasActive
    /\ guardCall.attempted = 2
    /\ guardCall.succeeded = 1
    /\ guardCall.ret
    /\ presentation_mode_active

\* C18: after a disable the guard is inactive, whichever of the reversals
\* failed; a disable made while the guard is inactive makes no host call and
\* returns true.
C18_DisableAlwaysInactive ==
    guardCall.name = "disable" =>
        /\ ~presentation_mode_active
        /\ ~guardCall.wasActive => (guardCall.ret /\ ~guardCall.calls)

\* a disable of an active guard whose reversals failed: it returned false,
\* the power request is still open on the host, and the guard is inactive
C18_Witness ==
    /\ guardCall.name = "disable"
    /\ guardCall.wasActive
    /\ guardCall.calls
    /\ ~guardCall.ret
    /\ hostHandleOpen # {}
    /\ ~presentation_mode_active

\* C19: when every host call so far succeeded, a disable of an active guard
\* leaves nothing engaged: no power request handle held or open, no
\* execution-state request set, notification blocking off and the
\* notification values as they were before the guard wrote them; also when
\* the feature configuration was updated between the enable and the disable.
C19_DisableReversesEnable ==
    (guardCall.name = "disable" /\ guardCall.wasActive /\ guardCall.allOk) =>
        /\ power_request_handle = None
        /\ hostHandleOpen = {}
        /\ \A h \in Handles : hostRequests[h] = {}
        /\ hostExecState = {}
        /\ ~notification_blocking_active
        /\ hostNotif = guardCall.orig

\* C20: the idle time returned by get_idle_duration is never negative, and
\* is 0 when the host query failed, for every 32-bit tick counter value and
\* last-input tick.
C20_IdleNeverNegative ==
    idleCall.called =>
        /\ ~Negative(idleCall.millis)
        /\ (idleCall.failed => idleCall.millis = Word(0, 0))

\* C21: mute_for_screensaver returns true exactly when at least one mute
\* layer took effect (endpoint mute, endpoint volume forced to zero, or a
\* session mute); when every layer fails it returns false.
C21_MuteReturnsLayerEffect ==
    lastCall.name = "mute" => (lastCall.ret <=> lastCall.effect)

\* C22: in an episode that starts with mute_on_screensaver on, the step
\* after the mute call is the renderer call, whichever mixer calls failed;
\* the renderer is then invoked, and the episode ends with showing false.
C22_OverlayDespiteAudioFailure ==
    [][/\ (pc = "enter" /\ config.mute_on_screensaver /\ pc' # pc)
            => (pc' = "render" /\ ep'.muteCalls = 1)
       /\ (pc = "render" /\ pc' # pc)
            => (pc' = "rendering" /\ activeRenders' = activeRenders + 1)
       /\ (pc = "clear" /\ pc' # pc) => ~showing']_vars

\* the renderer is running in an episode whose mute call found the endpoint
\* interface but neither muted the endpoint nor forced its volume to zero
C22_Witness ==
    /\ pc = "rendering"
    /\ activeRenders = 1
    /\ ep.muteCalls = 1
    /\ volume_interface
    /\ devMute = 0
    /\ devVol = 7

\* The dictionary c with every key it lacks at its default.
WithDefaults(c) ==
    [keys |-> Keys,
     interval |-> Get(c, "interval", DefaultConfig.interval),
     media_file |-> Get(c, "media_file", DefaultConfig.media_file),
     mute_on_screensaver |->
         Get(c, "mute_on_screensaver", DefaultConfig.mute_on_screensaver),
     suppress_during_video |->
         Get(c, "suppress_during_video", DefaultConfig.suppress_during_video),
     suppress_large_window |->
         Get(c, "suppress_large_window", DefaultConfig.suppress_large_window),
     enable_presentation_mode |->
         Get(c, "enable_presentation_mode",
             DefaultConfig.enable_presentation_mode),
     presentation_features |->
         Get(c, "presentation_features", DefaultConfig.presentation_features)]

\* C23: a tick of the poll loop on a configuration loaded from a parsed
\* file that lacks keys does what it would do with each missing key at its
\* default: in particular, with the idle time above the interval and
\* nothing suppressing, it invokes the renderer.
C23_MissingKeysUseDefaults ==
    cfgCall.name = "tick" =>
        cfgCall.result
            = monitor_tick(WithDefaults(settings), cfgCall.idle, cfgCall.sup)

\* C24: when the configuration file cannot be read or parsed, construction
\* completes with the default configuration and the poll loop runs.
C24_UnreadableStoreUsesDefaults ==
    [][(boot = "new" /\ store.state = "unreadable" /\ boot' # boot)
          => (boot' = "running" /\ settings' = DefaultConfig)]_vars

\* C25: show_screensaver has returned only after a user input event was
\* observed.
C25_ReturnsOnlyOnInput == rnd.pc = "returned" => rnd.input # "none"

\* C26: once the controller runs, the guard's feature set is the one
\* derived from the current configuration alone: all off when
\* enable_presentation_mode is false, otherwise the configured
\* presentation_features over the guard's defaults; also after a write
\* whose file could not be persisted.
C26_FeaturesFromCurrentConfig ==
    boot = "running" =>
        features = merge_features(GuardDefaults, features_config(settings))

\* C27: an overlay episode works on one configuration snapshot: the value
\* of mute_on_screensaver used when the episode ends is the one used when it
\* began, so the restore is called at the end of an episode exactly when
\* the episode called the mute, whatever the tray wrote in between.
C27_EpisodeUsesOneSnapshot ==
    [][(pc = "finally" /\ pc' = "clear")
          => ((ep'.restores = ep.restores + 1) <=> (ep.muteCalls = 1))]_vars

\* The rules of should_suppress_screensaver on the window and the playback
\* verdict of the call just made.
PlayerFullscreenPlaying ==
    is_video_player_window(fg) /\ is_fullscreen(fg) /\ supCall.video_playing

PlayerLargePlaying ==
    /\ suppress_large_window
    /\ is_video_player_window(fg)
    /\ fg.width > 1200 /\ fg.height > 800
    /\ supCall.video_playing

BrowserStreamingFullscreen ==
    /\ \E c \in browser_classes : In(c, lower(fg.class_name))
    /\ \E service \in video_services : In(service, lower(fg.title))
    /\ is_fullscreen(fg)

\* the slide show step saw a fullscreen slide show window
SlideshowInFront ==
    supCall.requery /\ is_powerpoint_slideshow_running(fg)

AutomationIndeterminate ==
    \/ com = "no_show"
    \/ /\ com = "ok"
       /\ Len(slide) > 0
       /\ \A i \in 1..Len(slide) : play_state(slide[i]) = None

\* C30: with a fullscreen slide show window in front and an automation
\* interface that has no application object or gives an indeterminate
\* state for every media object, the verdict of the slide show step is
\* the one of the process-CPU heuristic.
C30_IndeterminateFallsBackToCpu ==
    (/\ supCall.name = "should_suppress"
     /\ SlideshowInFront
     /\ AutomationIndeterminate) => supCall.step = "slideshow_cpu"

\* The three signals of the fullscreen determination, on the foreground
\* window and the show state the placement query of the call gave.
BasicSizeMatch ==
    fg.width >= 1920 - 20 /\ fg.height >= 1080 - 20

MaximizedNearFullWidth ==
    snap.placement = 3 /\ fg.width >= 1920 - 100

MediaShellMatch ==
    /\ fg.class_name = <<"ApplicationFrameWindow">>
    /\ \E i \in 1..Len(fg.title) : fg.title[i] = "メディア"
    /\ fg.width >= 1920 - 50 /\ fg.height >= 1080 - 50

\* C31: the snapshot's is_fullscreen is true exactly when the size matches
\* the screen within 20 px, or the window is maximized and at most 100 px
\* narrower than the screen, or it is the media-shell window within 50 px;
\* a failed maximize-state query makes only the second signal false.
C31_FullscreenIsOrOfThreeSignals ==
    (snap.called /\ snap.ok) =>
        /\ snap.is_fullscreen
              <=> (BasicSizeMatch \/ MaximizedNearFullWidth
                      \/ MediaShellMatch)
        /\ (snap.placement = None /\ fg.show_state = 3)
              => (snap.is_fullscreen <=> (BasicSizeMatch \/ MediaShellMatch))

\* a maximized window 70 px narrower than the screen, seen as fullscreen by
\* the maximize signal alone
C31_Witness ==
    /\ snap.called /\ snap.ok
    /\ snap.placement = 3
    /\ ~BasicSizeMatch /\ ~MediaShellMatch
    /\ snap.is_fullscreen

\* ---- C32: application sessions across mute and restore
\* Every session starts unmuted at volume 7 and only the VolumeController
\* writes a session's mute or volume, so these are the values a session had
\* before it was force-muted.
SessionsAsBefore == \A s \in Sessions : sess[s].mute = 0 /\ sess[s].vol = 7

\* a restore whose session writes were all accepted by the host
RestoreWritesAccepted ==
    /\ lastCall'.name = "restore"
    /\ ~lastCall'.raised
    /\ sess' = RestoreSessions(sess, touched_sessions, NoFail)

\* C32: a restore (its own session writes accepted) returns every session
\* that a mute call force-muted to the mute flag and volume it had before,
\* and leaves the touched-session list empty.
C32_ForcedSessionsRestored ==
    [][RestoreWritesAccepted =>
          /\ SessionsAsBefore'
          /\ touched_sessions' = <<>>]_vars

\* ---- C33: the endpoint volume fallback
MuteJustObserved == fb.called /\ lastCall.name = "mute"

FallbackDue == ~fb.muteOk \/ ~fb.readMuted

\* C33 as stated: after mute_for_screensaver the endpoint volume is zero
\* when the mute was rejected or read back as unmuted, whatever the host
\* does with the volume write, and is unchanged otherwise.
C33_VolumeZeroIffFallback_AnyOutcome ==
    MuteJustObserved =>
        /\ FallbackDue => devVol = 0
        /\ ~FallbackDue => devVol = fb.volBefore

\* C33 (amended): set_volume(0.0) is called exactly when the mute was
\* rejected or the check after it read the endpoint as unmuted; the volume
\* is zero when the host accepts that write and is otherwise what it was.
C33_VolumeZeroIffFallback ==
    MuteJustObserved =>
        /\ fb.volWrite <=> FallbackDue
        /\ (fb.volWrite /\ fb.volOk) => devVol = 0
        /\ ~(fb.volWrite /\ fb.volOk) => devVol = fb.volBefore

\* the mute is accepted, the check after it fails to read it, and the
\* volume goes from a non-zero value to zero
C33_Witness ==
    /\ MuteJustObserved
    /\ fb.muteOk /\ ~fb.readMuted
    /\ fb.volWrite /\ fb.volOk
    /\ fb.volBefore # 0 /\ devVol = 0

\* ---- C34: an episode with mute_on_screensaver off
\* the steps of show_screensaver_with_mute after its decision not to mute,
\* with the setting off before and after the step
UnmutedEpisodeStep ==
    /\ showing
    /\ pc \in {"render", "rendering", "finally"}
    /\ ep.muteCalls = 0
    /\ ~config.mute_on_screensaver
    /\ ~config'.mute_on_screensaver

AudioLeftEmpty ==
    /\ UNCHANGED <<devMute, devVol, sess>>
    /\ previous_mute_state' = None
    /\ previous_volume' = None
    /\ touched_sessions' = <<>>

\* C34: with mute_on_screensaver off, show_screensaver_with_mute goes on
\* to the renderer call without a write to the endpoint or to a session,
\* and the saved record of the VolumeController is empty after each of
\* its steps.
C34_UnmutedEpisodeLeavesAudioAlone ==
    [][/\ (pc = "enter" /\ pc' # "enter" /\ ~config.mute_on_screensaver)
            => (pc' = "render" /\ AudioLeftEmpty)
       /\ UnmutedEpisodeStep => AudioLeftEmpty]_vars

\* ---- C35: the saved notification values
\* C35: while notification blocking is engaged, a snapshot that was taken
\* holds the notification values the host had before the guard wrote any
\* (guardCall.orig), never the values the guard itself wrote.
C35_SnapshotIsFromBeforeGuard ==
    (notification_blocking_active /\ saved_notification_settings # <<>>)
        => /\ saved_notification_settings = guardCall.orig
           /\ saved_notification_settings # NotifBlocked

\* ---- C36: the cursor after show_image
\* C36: when show_image has returned, having hidden the cursor and with
\* no show call refused by the host, the cursor is shown again (display
\* counter not negative) and the hidden flag of the controller is false.
C36_CursorShownOnReturn ==
    (cur.pc = "returned" /\ cur.cursor_hidden /\ ~cur.showRaised)
        => (~cur.hidden /\ cur.count >= 0)

\* ---- C37, C38: the single-instance lock
Holds(q) == lk.p[q].pc = "holding"

Refused(q) == lk.p[q].ret = "false"

\* C37: a step of an instance whose acquire() returned False, release()
\* included, leaves the lock file of a running holder as it is.
C37_RefusedInstanceLeavesLock ==
    [][\A q \in Procs :
          (/\ Refused(q)
           /\ lk'.p[q] # lk.p[q]
           /\ \E h \in Procs \ {q} : Holds(h) /\ lk.file.pid = h)
              => lk'.file = lk.file]_vars

\* C38: at most one process holds the lock (acquire() returned True and
\* release() not yet called), whatever the interleaving of the acquires.
C38_AtMostOneHolder ==
    \A q \in Procs, h \in Procs : (Holds(q) /\ Holds(h)) => q = h

\* ---- C39: stop()
FirstStopReturns == stp.stops = 0 /\ stp'.stops = 1

LaterStopReturns == stp.stops >= 1 /\ stp'.stops = stp.stops + 1

\* C39: when the first stop() returns, running is false, the guard is not
\* active and the tray has been told to stop whatever the guard's host
\* calls did; when the tray ends the process instead, the guard has been
\* disabled before; a later stop() makes no guard call and no tray call
\* and changes nothing.
C39_StopIdempotentAndQuiescent ==
    [][/\ FirstStopReturns
            => /\ ~running' /\ stopping'
               /\ ~presentation_mode_active'
               /\ stp'.trayCalls = 1
               /\ stp'.guardCalls = Count(presentation_mode_active)
       /\ (stp'.exited /\ ~stp.exited)
            => (~running' /\ ~presentation_mode_active')
       /\ LaterStopReturns
            => /\ stp'.guardCalls = stp.guardCalls
               /\ stp'.trayCalls = stp.trayCalls
               /\ UNCHANGED <<running, stopping, presentation_mode_active,
                              guardVars>>]_vars

\* stop() was called twice on an active guard: one guard call, one tray
\* call, and the controller is quiescent
C39_Witness ==
    /\ stp.stops = 2
    /\ stp.guardCalls = 1
    /\ stp.trayCalls = 1
    /\ ~running /\ ~presentation_mode_active

====
